---- MODULE Spec2Model ----
(***************************************************************************)
(* Model of the asynchronous page-rendering pipeline of cdisplayagain:     *)
(* LRUCache, Debouncer, ImageWorker (bounded priority queue + worker       *)
(* threads) and the ComicViewer handlers that drive them.                  *)
(***************************************************************************)
EXTENDS Integers, Sequences, FiniteSets, Bags, TLC

VARIABLES
    source,                         \* ComicViewer.source: 0 is None, else a document
    current_index,                  \* ComicViewer._current_index (0-based)
    render_generation,              \* ComicViewer._render_generation
    image_cache,                    \* ComicViewer._image_cache : LRUCache
    current_pil,                    \* ComicViewer._current_pil, the image on display
    scroll_offset,                  \* ComicViewer._scroll_offset
    info_overlay,                   \* ComicViewer._info_overlay is set
    canvas_properly_sized,          \* ComicViewer._canvas_properly_sized
    first_proper_render_completed,  \* ComicViewer._first_proper_render_completed
    canvas,                         \* <<winfo_width, winfo_height>> of the canvas
    queue,                          \* ImageWorker._queue, in enqueue order
    num_workers,                    \* ImageWorker(num_workers=...)
    pc,                             \* position of each worker thread in _run
    witem,                          \* the work item a worker holds
    wsrc,                           \* the source a worker read for get_bytes
    wimg,                           \* the image a worker decoded
    werr,                           \* the exception a worker caught before its current item
    idle,                           \* Tk after_idle callbacks scheduled by workers
    pending,                        \* history: bag of accepted, unfinished work items
    events,                         \* history: number of input events handled
    last_ui,                        \* history: what the last UI handler did
    lru,                            \* an LRUCache(maxsize) driven directly
    ref,                            \* history: reference strict-LRU map of lru
    clock,                          \* history: number of touches of lru
    last_evict,                     \* history: the entry the reference evicted last
    timer_id,                       \* Debouncer._timer_id, 0 is None
    tk_after,                       \* Tk timers pending for the Debouncer
    after_seq,                      \* Tk's counter of after ids
    calls,                          \* arguments of the callback runs, in order
    bursts,                         \* history: number of trigger bursts begun
    last_args,                      \* history: arguments of the last trigger
    last_op,                        \* history: the UI handler that ran last
    live,                           \* history: bag of loaded sources not yet cleaned up
    peak_live,                      \* history: most sources live at once in the last open
    quitting,                       \* ComicViewer._quitting
    dialog_active,                  \* ComicViewer._dialog_active
    pending_quit,                   \* ComicViewer._pending_quit
    destroyed,                      \* history: the calls of master.destroy() made by _quit
    stopped,                        \* ImageWorker._stopped
    threads,                        \* ImageWorker._threads, as a sequence of workers
    stop_pc,                        \* position of the UI thread in ImageWorker.stop
    join_raised,                    \* history: workers whose join raised in stop
    key_names,                      \* the two names whose natural keys are compared
    key_order,                      \* natural_key(names[1]) against natural_key(names[2])
    container,                      \* the archive or directory at the path a loader is given
    page_source,                    \* what the loader produced: a PageSource or an error
    handle,                         \* the open archive handle: zf of load_cbz, tf of load_tar
    tmpdir,                         \* the scratch directory of load_cbr
    got,                            \* what the last get_bytes call produced
    cleanups                        \* history: the cleanup calls made on the source

vars == <<source, current_index, render_generation, image_cache, current_pil, scroll_offset,
          info_overlay, canvas_properly_sized, first_proper_render_completed,
          canvas, queue, num_workers, pc, witem, wsrc, wimg, werr, idle,
          pending, events, last_ui, lru, ref, clock, last_evict, timer_id,
          tk_after, after_seq, calls, bursts, last_args, last_op, live,
          peak_live, quitting, dialog_active, pending_quit, destroyed, stopped,
          threads, stop_pc, join_raised, key_names, key_order, container,
          page_source, handle, tmpdir, got, cleanups>>

viewerVars == <<source, current_index, render_generation, current_pil, scroll_offset,
                info_overlay, canvas_properly_sized,
                first_proper_render_completed, canvas, queue, num_workers,
                pc, witem, wsrc, wimg, werr, idle, pending, events,
                last_ui, last_op, live, peak_live, quitting, dialog_active,
                pending_quit, destroyed, stopped, threads, stop_pc, join_raised>>

quitVars == <<quitting, dialog_active, pending_quit, destroyed>>

poolVars == <<stopped, threads, stop_pc, join_raised>>

lruVars == <<lru, ref, clock, last_evict>>

loadVars == <<key_names, key_order, container, page_source, handle, tmpdir, got,
             cleanups>>

debVars == <<timer_id, tk_after, after_seq, calls, bursts, last_args>>

----------------------------------------------------------------------------
(* Bounds of the model *)

MaxEvents == 3

MaxCap == 2

MaxOps == 5

MaxAfter == 4

\* The longest name handed to natural_key.
MaxLen == 3

\* The most entries a container lists.
MaxEntries == 4

\* The most cleanup calls made on one page source.
MaxCleanups == 2

(* Program constants *)

QueueMaxSize == 4

CacheMaxSize == 20

ProperSize == 100

Max(a, b) == IF a >= b THEN a ELSE b

Min(a, b) == IF a <= b THEN a ELSE b

----------------------------------------------------------------------------
(* Documents, page names and images *)

\* A name is the sequence of its characters.
Digits == {"0", "1", "2", "9"}

\* str.casefold on the characters names are made of.
casefold_char(c) ==
    CASE c = "A" -> "a"
      [] c = "J" -> "j"
      [] c = "P" -> "p"
      [] c = "G" -> "g"
      [] OTHER -> c

casefold(s) == [i \in 1..Len(s) |-> casefold_char(s[i])]

\* ord(c): the code point Python compares characters by.
ord(c) ==
    CASE c = "." -> 46
      [] c = "/" -> 47
      [] c = "0" -> 48
      [] c = "1" -> 49
      [] c = "2" -> 50
      [] c = "9" -> 57
      [] c = "A" -> 65
      [] c = "G" -> 71
      [] c = "J" -> 74
      [] c = "P" -> 80
      [] c = "a" -> 97
      [] c = "b" -> 98
      [] c = "d" -> 100
      [] c = "f" -> 102
      [] c = "g" -> 103
      [] c = "j" -> 106
      [] c = "n" -> 110
      [] c = "o" -> 111
      [] c = "p" -> 112
      [] c = "r" -> 114
      [] c = "t" -> 116
      [] c = "x" -> 120
      [] OTHER -> 0

\* Path(name).suffix: trailing slashes dropped, then from the last dot of
\* the final component, unless that dot leads or ends the component.
PathSuffix(name) ==
    LET solid == { i \in 1..Len(name) : name[i] # "/" }
        last == IF solid = {} THEN 0
                ELSE CHOOSE i \in solid : \A j \in solid : j <= i
        slashes == { i \in 1..last : name[i] = "/" }
        start == IF slashes = {} THEN 1
                 ELSE 1 + CHOOSE i \in slashes : \A j \in slashes : j <= i
        dots == { i \in start..last : name[i] = "." }
        dot == IF dots = {} THEN 0
               ELSE CHOOSE i \in dots : \A j \in dots : j <= i
    IN IF start < dot /\ dot < last THEN SubSeq(name, dot, last) ELSE <<>>

IMAGE_EXTS ==
    { <<".", "j", "p", "g">>, <<".", "j", "p", "e", "g">>, <<".", "p", "n", "g">>,
      <<".", "g", "i", "f">>, <<".", "w", "e", "b", "p">>, <<".", "b", "m", "p">>,
      <<".", "t", "i", "f">>, <<".", "t", "i", "f", "f">> }

TextExts == { <<".", "n", "f", "o">>, <<".", "t", "x", "t">> }

is_image_name(name) == casefold(PathSuffix(name)) \in IMAGE_EXTS

is_text_name(name) == casefold(PathSuffix(name)) \in TextExts

\* str.isdigit() of a token.
isdigit(tok) == tok # <<>> /\ \A i \in 1..Len(tok) : tok[i] \in Digits

\* int(t) of a token of decimal digits.
RECURSIVE int(_)
int(tok) ==
    IF tok = <<>> THEN 0
    ELSE 10 * int(SubSeq(tok, 1, Len(tok) - 1)) + (ord(tok[Len(tok)]) - 48)

\* The length of the longest prefix of s whose characters are all digits
\* (digits = TRUE) or all other characters (digits = FALSE).
RunLen(s, digits) ==
    LET stops == { i \in 1..Len(s) : (s[i] \in Digits) # digits }
    IN IF stops = {} THEN Len(s)
       ELSE (CHOOSE i \in stops : \A j \in stops : i <= j) - 1

\* re.split(r"(\d+)", s): the runs of s, a run of other characters (maybe
\* empty) first and last, a run of digits between each two.
RECURSIVE re_split(_)
re_split(s) ==
    LET n == RunLen(s, FALSE)
        rest == SubSeq(s, n + 1, Len(s))
        m == RunLen(rest, TRUE)
    IN IF rest = <<>> THEN << SubSeq(s, 1, n) >>
       ELSE << SubSeq(s, 1, n), SubSeq(rest, 1, m) >>
              \o re_split(SubSeq(rest, m + 1, Len(rest)))

\* One element of a key: an int or a str.
KeyInt(n) == [isint |-> TRUE, n |-> n, s |-> <<>>]

KeyStr(s) == [isint |-> FALSE, n |-> 0, s |-> s]

\* A natural_key that keeps digit runs as text.
natural_key_as_text(s) ==
    LET toks == re_split(s)
    IN [i \in 1..Len(toks) |-> KeyStr(casefold(toks[i]))]

natural_key(s) ==
    LET toks == re_split(s)
    IN [i \in 1..Len(toks) |->
          IF isdigit(toks[i]) THEN KeyInt(int(toks[i]))
          ELSE KeyStr(casefold(toks[i]))]

\* Python's comparison of two str: "lt", "eq" or "gt".
StrCmp(a, b) ==
    LET both == 1..(IF Len(a) <= Len(b) THEN Len(a) ELSE Len(b))
        diff == { i \in both : a[i] # b[i] }
        d == CHOOSE i \in diff : \A j \in diff : i <= j
    IN IF diff # {} THEN (IF ord(a[d]) < ord(b[d]) THEN "lt" ELSE "gt")
       ELSE IF Len(a) < Len(b) THEN "lt"
       ELSE IF Len(a) > Len(b) THEN "gt"
       ELSE "eq"

\* Python's comparison of two key elements; an int against a str raises.
ElemCmp(x, y) ==
    IF x.isint # y.isint THEN "TypeError"
    ELSE IF ~x.isint THEN StrCmp(x.s, y.s)
    ELSE IF x.n < y.n THEN "lt"
    ELSE IF x.n > y.n THEN "gt"
    ELSE "eq"

\* Python's comparison of two lists, as list.sort applies it to two keys.
KeyCmp(ka, kb) ==
    LET both == 1..(IF Len(ka) <= Len(kb) THEN Len(ka) ELSE Len(kb))
        diff == { i \in both : ka[i] # kb[i] }
        d == CHOOSE i \in diff : \A j \in diff : i <= j
    IN IF diff # {} THEN ElemCmp(ka[d], kb[d])
       ELSE IF Len(ka) < Len(kb) THEN "lt"
       ELSE IF Len(ka) > Len(kb) THEN "gt"
       ELSE "eq"

\* list.sort(key=natural_key): stable, so names with equal keys keep the
\* order they were listed in.
KeyLessEq(a, b) == KeyCmp(natural_key(a), natural_key(b)) \in {"lt", "eq"}

RECURSIVE sort_natural(_)
sort_natural(s) ==
    IF s = <<>> THEN <<>>
    ELSE LET x == s[Len(s)]
             done == sort_natural(SubSeq(s, 1, Len(s) - 1))
             n == Cardinality({ i \in 1..Len(done) : KeyLessEq(done[i], x) })
         IN SubSeq(done, 1, n) \o <<x>> \o SubSeq(done, n + 1, Len(done))

----------------------------------------------------------------------------
(* Page sources: what a loader is given and what it returns.  A container   *)
(* lists entries [name, file]; file is FALSE for a directory entry.  A      *)
(* loader returns [source, handle, tmpdir]: the PageSource or the error it  *)
(* raised, and the state it leaves the archive handle and the scratch       *)
(* directory in.                                                            *)

\* The names of a sequence of entries, in order.
EntryNames(es) == [i \in 1..Len(es) |-> es[i].name]

endswith_slash(name) == name # <<>> /\ name[Len(name)] = "/"

IsTextEntry(e) == is_text_name(e.name)

IsImageEntry(e) == is_image_name(e.name)

\* text_names + image_names, each sorted by natural_key.
PagesOf(es) ==
    sort_natural(EntryNames(SelectSeq(es, IsTextEntry)))
      \o sort_natural(EntryNames(SelectSeq(es, IsImageEntry)))

PageSource(pages, has_cleanup, files) ==
    [status |-> "ok", pages |-> pages, has_cleanup |-> has_cleanup,
     files |-> files, error |-> "none"]

\* The loader raised: EmptyContent is its RuntimeError("No images ..."),
\* anything else the error of the failing call.
Raised(error) ==
    [status |-> "error", pages |-> <<>>, has_cleanup |-> FALSE, files |-> {},
     error |-> error]

\* shutil.rmtree on the scratch directory: gone, or left behind when the
\* removal fails.
rmtree(rm_ok) == IF rm_ok THEN "removed" ELSE "stuck"

Exists(dir) == dir \in {"exists", "stuck"}

IsNotDir(e) == ~endswith_slash(e.name)

IsFile(e) == e.file

\* A load_tar that raises on an archive without pages and leaves tf open.
load_tar_keeps_handle(es, open_ok) ==
    LET members == SelectSeq(es, IsFile)
        pages == PagesOf(members)
    IN IF ~open_ok
       THEN [source |-> Raised("CorruptOrUnreadable"), handle |-> "none", tmpdir |-> "none"]
       ELSE IF pages = <<>>
       THEN [source |-> Raised("EmptyContent"), handle |-> "open", tmpdir |-> "none"]
       ELSE [source |-> PageSource(pages, TRUE,
                                   { members[i].name : i \in 1..Len(members) }),
             handle |-> "open", tmpdir |-> "none"]

load_cbz(es, open_ok) ==
    LET names == SelectSeq(es, IsNotDir)
        pages == PagesOf(names)
    IN IF ~open_ok
       THEN [source |-> Raised("CorruptOrUnreadable"), handle |-> "none", tmpdir |-> "none"]
       ELSE IF pages = <<>>
       THEN [source |-> Raised("EmptyContent"), handle |-> "closed", tmpdir |-> "none"]
       ELSE [source |-> PageSource(pages, TRUE, { es[i].name : i \in 1..Len(es) }),
             handle |-> "open", tmpdir |-> "none"]

load_tar(es, open_ok) ==
    LET members == SelectSeq(es, IsFile)
        pages == PagesOf(members)
    IN IF ~open_ok
       THEN [source |-> Raised("CorruptOrUnreadable"), handle |-> "none", tmpdir |-> "none"]
       ELSE IF pages = <<>>
       THEN [source |-> Raised("EmptyContent"), handle |-> "closed", tmpdir |-> "none"]
       ELSE [source |-> PageSource(pages, TRUE,
                                   { members[i].name : i \in 1..Len(members) }),
             handle |-> "open", tmpdir |-> "none"]

\* What load_cbr does inside its try block: bad are the names whose
\* extraction (rar.read, mkdir, write_bytes) raises.
ExtractCbr(es, open_ok, bad) ==
    LET listed == { i \in 1..Len(es) : es[i].name # <<>> }
        mkdir_raises == \E i \in listed :
                            endswith_slash(es[i].name) /\ es[i].name \in bad
        IsExtracted(e) == e.name # <<>> /\ ~endswith_slash(e.name) /\ e.name \notin bad
        extracted == SelectSeq(es, IsExtracted)
        pages == PagesOf(extracted)
    IN IF ~open_ok \/ mkdir_raises THEN Raised("CorruptOrUnreadable")
       ELSE IF pages = <<>> THEN Raised("EmptyContent")
       ELSE PageSource(pages, TRUE, { extracted[i].name : i \in 1..Len(extracted) })

\* A load_cbr without its `except Exception:` branch.
load_cbr_no_except(es, open_ok, bad, rm_ok) ==
    [source |-> ExtractCbr(es, open_ok, bad), handle |-> "none", tmpdir |-> "exists"]

load_cbr(es, open_ok, bad, rm_ok) ==
    LET src == ExtractCbr(es, open_ok, bad)
    IN [source |-> src, handle |-> "none",
        tmpdir |-> IF src.status = "ok" THEN "exists" ELSE rmtree(rm_ok)]

\* open_ok: path.is_dir().
load_directory(es, open_ok) ==
    LET files == SelectSeq(es, IsFile)
        pages == PagesOf(files)
    IN IF ~open_ok
       THEN [source |-> Raised("NotADirectory"), handle |-> "none", tmpdir |-> "none"]
       ELSE IF pages = <<>>
       THEN [source |-> Raised("EmptyContent"), handle |-> "none", tmpdir |-> "none"]
       ELSE [source |-> PageSource(pages, FALSE, {}), handle |-> "none",
             tmpdir |-> "none"]

\* The path is the one entry of the container.
load_image_file(es) ==
    IF Len(es) = 1 /\ es[1].file /\ is_image_name(es[1].name)
    THEN [source |-> PageSource(<<es[1].name>>, FALSE, {}), handle |-> "none",
          tmpdir |-> "none"]
    ELSE [source |-> Raised("NotAnImage"), handle |-> "none", tmpdir |-> "none"]

\* The loader load_comic hands a container of this kind to.
LoadKind(c, open_ok, bad, rm_ok) ==
    CASE c.kind = "cbz" -> load_cbz(c.entries, open_ok)
      [] c.kind = "cbr" -> load_cbr(c.entries, open_ok, bad, rm_ok)
      [] c.kind = "tar" -> load_tar(c.entries, open_ok)
      [] c.kind = "dir" -> load_directory(c.entries, open_ok)
      [] OTHER -> load_image_file(c.entries)

\* get_bytes(name) of the source a loader returned for container c, with the
\* handle and the scratch directory as they are now: "bytes", or the
\* exception raised.
GetBytes(c, src, h, dir, name) ==
    CASE c.kind = "cbz" ->
           IF h # "open" THEN "ValueError"
           ELSE IF name \in src.files THEN "bytes" ELSE "KeyError"
      [] c.kind = "tar" ->
           IF name \notin src.files THEN "RuntimeError"
           ELSE IF h # "open" THEN "ValueError" ELSE "bytes"
      [] c.kind = "cbr" ->
           IF Exists(dir) /\ name \in src.files THEN "bytes"
           ELSE "FileNotFoundError"
      [] c.kind = "dir" ->
           IF \E i \in 1..Len(c.entries) : c.entries[i].name = name /\ c.entries[i].file
           THEN "bytes"
           ELSE IF \E i \in 1..Len(c.entries) : c.entries[i].name = name
           THEN "IsADirectoryError"
           ELSE "FileNotFoundError"
      [] OTHER -> "bytes"

----------------------------------------------------------------------------
(* The documents the viewer opens *)

\* The documents a path can load into: their ordered page names.
Docs == {1, 2}

DocPages(d) ==
    IF d = 1 THEN << <<"p", "1", ".", "j", "p", "g">>, <<"p", "2", ".", "j", "p", "g">> >>
    ELSE << <<"r", ".", "t", "x", "t">>, <<"p", "1", ".", "j", "p", "g">> >>

\* Paths the user can open: a document, or 0, a path load_comic fails on.
Paths == Docs \cup {0}

load_comic(path) == IF path \in Docs THEN path ELSE 0

\* The sizes Tk reports for the canvas: 1x1 before layout, then real sizes.
CanvasSizes == { <<1, 1>>, <<100, 100>>, <<200, 100>> }

\* The pool sizes ImageWorker is constructed with.
WorkerCounts == {1, 2}

None == [doc |-> 0, name |-> <<>>, w |-> 0, h |-> 0, q |-> "none"]

\* get_resized_pil(get_bytes(name), w, h) on document d.
ResizedImage(d, name, w, h) ==
    [doc |-> d, name |-> name, w |-> w, h |-> h, q |-> "resized"]

\* The NEAREST preview _display_image_fast builds from the raw page.
FastImage(d, name, w, h) ==
    [doc |-> d, name |-> name, w |-> w, h |-> h, q |-> "fast"]

Truthy(img) == img # None

----------------------------------------------------------------------------
(* LRUCache: a record [maxsize, cache], cache the OrderedDict as a sequence *)
(* of <<key, value>> pairs, oldest first.                                   *)

LRUCache(maxsize) == [maxsize |-> maxsize, cache |-> <<>>]

LRU_contains(c, key) == \E i \in 1..Len(c.cache) : c.cache[i][1] = key

LRU_len(c) == Len(c.cache)

OD_index(od, key) == CHOOSE i \in 1..Len(od) : od[i][1] = key

OD_remove(od, i) == SubSeq(od, 1, i - 1) \o SubSeq(od, i + 1, Len(od))

OD_move_to_end(od, key) ==
    LET i == OD_index(od, key) IN Append(OD_remove(od, i), od[i])

\* get: the value returned, and the cache afterwards.
LRU_get_value(c, key) ==
    IF ~LRU_contains(c, key) THEN None
    ELSE c.cache[OD_index(c.cache, key)][2]

\* A get that leaves the order alone.
LRU_get_no_move(c, key) == c

LRU_get(c, key) ==
    IF ~LRU_contains(c, key) THEN c
    ELSE [c EXCEPT !.cache = OD_move_to_end(c.cache, key)]

\* __getitem__: raises KeyError on a miss, else as get.
LRU_getitem_raises(c, key) == ~LRU_contains(c, key)

LRU_getitem(c, key) ==
    IF ~LRU_contains(c, key) THEN c
    ELSE [c EXCEPT !.cache = OD_move_to_end(c.cache, key)]

\* A __setitem__ that never evicts.
\* A __setitem__ that keys the cache by the page index alone.
LRU_setitem_by_index(c, key, value) ==
    LET same == { i \in 1..Len(c.cache) : c.cache[i][1][1] = key[1] }
    IN IF same # {}
       THEN LET od == OD_remove(c.cache, CHOOSE i \in same : TRUE)
            IN [c EXCEPT !.cache = Append(od, <<key, value>>)]
       ELSE LET od == IF Len(c.cache) >= c.maxsize THEN Tail(c.cache) ELSE c.cache
            IN [c EXCEPT !.cache = Append(od, <<key, value>>)]

LRU_setitem_no_evict(c, key, value) ==
    IF LRU_contains(c, key)
    THEN LET od == OD_move_to_end(c.cache, key)
         IN [c EXCEPT !.cache = [od EXCEPT ![Len(od)] = <<key, value>>]]
    ELSE [c EXCEPT !.cache = Append(c.cache, <<key, value>>)]

LRU_setitem(c, key, value) ==
    IF LRU_contains(c, key)
    THEN LET od == OD_move_to_end(c.cache, key)
         IN [c EXCEPT !.cache = [od EXCEPT ![Len(od)] = <<key, value>>]]
    ELSE LET od == IF Len(c.cache) >= c.maxsize THEN Tail(c.cache) ELSE c.cache
         IN [c EXCEPT !.cache = Append(od, <<key, value>>)]

LRU_clear(c) == [c EXCEPT !.cache = <<>>]

----------------------------------------------------------------------------
(* ImageWorker: the bounded priority queue *)

NoItem == [priority |-> -1, index |-> -1, width |-> 0, height |-> 0,
           preload |-> FALSE, gen |-> -1]

WorkItem(index, width, height, preload, gen) ==
    [priority |-> IF preload THEN 1 ELSE 0, index |-> index, width |-> width,
     height |-> height, preload |-> preload, gen |-> gen]

\* The tuple (priority, index, width, height, preload, render_generation).
ItemTuple(it) ==
    <<it.priority, it.index, it.width, it.height,
      IF it.preload THEN 1 ELSE 0, it.gen>>

RECURSIVE TupleLess(_, _)
TupleLess(a, b) ==
    IF a = <<>> \/ b = <<>> THEN a = <<>> /\ b # <<>>
    ELSE IF Head(a) # Head(b) THEN Head(a) < Head(b)
    ELSE TupleLess(Tail(a), Tail(b))

ItemLess(a, b) == TupleLess(ItemTuple(a), ItemTuple(b))

\* A put that ignores maxsize.
request_page_unbounded(q, index, width, height, preload, gen) ==
    Append(q, WorkItem(index, width, height, preload, gen))

\* PriorityQueue.put_nowait under try/except queue.Full.
request_page(q, index, width, height, preload, gen) ==
    IF Len(q) >= QueueMaxSize THEN q
    ELSE Append(q, WorkItem(index, width, height, preload, gen))

\* A get that serves in enqueue order, whatever the priority.
QueueGetPos_fifo(q) == 1

\* PriorityQueue.get: the position of the smallest tuple (the first of equals).
QueueGetPos(q) ==
    CHOOSE i \in 1..Len(q) :
        /\ \A j \in 1..Len(q) : ~ItemLess(q[j], q[i])
        /\ \A j \in 1..(i - 1) : ItemTuple(q[j]) # ItemTuple(q[i])

QueueGetItem(q) == q[QueueGetPos(q)]

\* A get that leaves the item in the queue.
QueueGetRest_peek(q) == q

QueueGetRest(q) ==
    LET i == QueueGetPos(q) IN SubSeq(q, 1, i - 1) \o SubSeq(q, i + 1, Len(q))

RECURSIVE SeqToBag(_)
SeqToBag(s) ==
    IF s = <<>> THEN EmptyBag ELSE SetToBag({Head(s)}) (+) SeqToBag(Tail(s))

\* The arguments of one request_page call.
Request(index, width, height, is_preload, gen) ==
    [index |-> index, width |-> width, height |-> height,
     preload |-> is_preload, gen |-> gen]

\* ImageWorker.preload: a speculative request at the canvas size cv; the
\* render_generation argument is left at its default, 0.
preload(index, cv) == Request(index, Max(1, cv[1]), Max(1, cv[2]), TRUE, 0)

\* The request_page calls of one handler, made in order.
RECURSIVE RequestAll(_, _)
RequestAll(q, reqs) ==
    IF reqs = <<>> THEN q
    ELSE LET r == Head(reqs)
         IN RequestAll(request_page(q, r.index, r.width, r.height, r.preload, r.gen),
                       Tail(reqs))

----------------------------------------------------------------------------
(* ComicViewer: rendering *)

NumPages == Len(DocPages(source))

PageName(index) == DocPages(source)[index + 1]

\* A search that starts at start_index itself instead of the page after it.
find_next_image_index_from_start(start_index) ==
    IF source = 0 THEN -1
    ELSE LET later == { i \in start_index..(NumPages - 1) :
                          ~is_text_name(PageName(i)) }
         IN IF later = {} THEN -1
            ELSE CHOOSE i \in later : \A j \in later : i <= j

\* _find_next_image_index: -1 is None.
find_next_image_index(start_index) ==
    IF source = 0 THEN -1
    ELSE LET later == { i \in (start_index + 1)..(NumPages - 1) :
                          ~is_text_name(PageName(i)) }
         IN IF later = {} THEN -1
            ELSE CHOOSE i \in later : \A j \in later : i <= j

\* canvas.winfo_width() taken as it comes, without the max(1, ...).
CW_unclamped(cv) == cv[1]

\* max(1, canvas.winfo_width()), max(1, canvas.winfo_height()) at canvas size cv.
CW(cv) == Max(1, cv[1])

CH(cv) == Max(1, cv[2])

\* A handler's requests reach the queue; what was accepted joins the history
\* bag, and the number refused is noted.
Submit(reqs) ==
    /\ queue' = RequestAll(queue, reqs)
    /\ pending' = pending (+) SeqToBag(SubSeq(queue', Len(queue) + 1, Len(queue')))
    /\ last_ui' = [update |-> "none",
                   dropped |-> Len(reqs) - (Len(queue') - Len(queue))]

\* max(0, self._scaled_size[1] - ch): how far img scrolls on a canvas of size cv.
MaxOffset(img, cv) == Max(0, img.h - CH(cv))

\* The _scroll_offset a display function leaves: img is displayed on a canvas
\* of size cv with the offset at off.
DisplayOffset(img, cv, off) ==
    IF img.h <= CH(cv) THEN 0 ELSE Min(Max(off, 0), MaxOffset(img, cv))

\* _render_info_with_image followed by _show_info_overlay; off is the
\* _scroll_offset the caller left.
RenderInfoWithImage(index, gen, cv, off) ==
    LET image_index == find_next_image_index(index)
        cache_key == <<image_index, CW(cv), CH(cv)>>
        cached == LRU_get_value(image_cache, cache_key)
    IN IF image_index = -1
       THEN /\ current_pil' = None
            /\ scroll_offset' = 0
            /\ info_overlay' = TRUE
            /\ Submit(<<>>)
            /\ UNCHANGED image_cache
       ELSE /\ image_cache' = LRU_get(image_cache, cache_key)
            /\ info_overlay' = TRUE
            /\ IF Truthy(cached)
               THEN /\ current_pil' = cached
                    /\ scroll_offset' = DisplayOffset(cached, cv, off)
                    /\ Submit(<<>>)
               ELSE /\ Submit(<<Request(image_index, CW(cv), CH(cv), FALSE, gen)>>)
                    /\ scroll_offset' = off
                    /\ UNCHANGED current_pil

\* _render_current with a source, at page index and render generation gen.
RenderCurrent(index, gen, cv, off) ==
    IF is_text_name(PageName(index))
    THEN RenderInfoWithImage(index, gen, cv, off)
    ELSE LET cache_key == <<index, CW(cv), CH(cv)>>
             cached == LRU_get_value(image_cache, cache_key)
             r1 == IF Truthy(cached) THEN <<>>
                   ELSE <<Request(index, CW(cv), CH(cv), FALSE, gen)>>
             next_idx == find_next_image_index(index)
             r2 == IF next_idx # -1 THEN <<preload(next_idx, cv)>> ELSE <<>>
         IN /\ info_overlay' = FALSE
            /\ image_cache' = LRU_get(image_cache, cache_key)
            /\ current_pil' = IF Truthy(cached) THEN cached ELSE current_pil
            /\ scroll_offset' = IF Truthy(cached)
                                THEN DisplayOffset(cached, cv, off) ELSE off
            /\ Submit(r1 \o r2)

\* _render_current_sync with a source; get_bytes on the UI thread may raise.
RenderCurrentSync(index, gen, cv, off) ==
    IF is_text_name(PageName(index))
    THEN RenderInfoWithImage(index, gen, cv, off)
         /\ UNCHANGED first_proper_render_completed
    ELSE LET cache_key == <<index, CW(cv), CH(cv)>>
             cached == LRU_get_value(image_cache, cache_key)
         IN /\ info_overlay' = FALSE
            /\ image_cache' = LRU_get(image_cache, cache_key)
            /\ IF Truthy(cached)
               THEN /\ current_pil' = cached
                    /\ scroll_offset' = DisplayOffset(cached, cv, off)
                    /\ first_proper_render_completed' = TRUE
                    /\ Submit(<<>>)
               ELSE IF ~first_proper_render_completed
               THEN /\ Submit(<<Request(index, CW(cv), CH(cv), FALSE, gen)>>)
                    /\ scroll_offset' = off
                    /\ UNCHANGED <<current_pil, first_proper_render_completed>>
               ELSE \E raw_ok \in BOOLEAN :
                      IF raw_ok
                      THEN /\ current_pil' = FastImage(source, PageName(index),
                                                       CW(cv), CH(cv))
                           /\ scroll_offset' = DisplayOffset(current_pil', cv, off)
                           /\ Submit(<<Request(index, CW(cv), CH(cv), FALSE, gen)>>)
                           /\ UNCHANGED first_proper_render_completed
                      ELSE /\ Submit(<<>>)
                           /\ scroll_offset' = off
                           /\ UNCHANGED <<current_pil, first_proper_render_completed>>

workerVars == <<num_workers, pc, witem, wsrc, wimg, werr, idle>>

\* What a worker thread never touches besides the viewer's fields.
restVars == <<events, last_ui, last_op, live, peak_live, quitVars, poolVars,
             lruVars, loadVars, debVars>>

----------------------------------------------------------------------------
(* ComicViewer: the handlers the event loop runs *)

\* A handler that returns without rendering; the info overlay ends as given.
NoRender(overlay) ==
    /\ Submit(<<>>)
    /\ info_overlay' = overlay
    /\ UNCHANGED <<current_index, render_generation, image_cache, current_pil, scroll_offset>>

\* A next_page() that renders the new page under the old generation.
NextPageCall_no_bump ==
    IF source # 0 /\ current_index < NumPages - 1
    THEN /\ current_index' = current_index + 1
         /\ UNCHANGED render_generation
         /\ RenderCurrent(current_index', render_generation, canvas, 0)
    ELSE NoRender(info_overlay)

\* The body of next_page().
NextPageCall ==
    IF source # 0 /\ current_index < NumPages - 1
    THEN /\ current_index' = current_index + 1
         /\ render_generation' = render_generation + 1
         /\ RenderCurrent(current_index', render_generation', canvas, 0)
    ELSE NoRender(info_overlay)

\* A prev_page() that wraps from the first page to the last.
PrevPageCall_wraps ==
    IF source # 0
    THEN /\ current_index' = (IF current_index > 0 THEN current_index - 1
                              ELSE NumPages - 1)
         /\ render_generation' = render_generation + 1
         /\ RenderCurrent(current_index', render_generation', canvas, 0)
    ELSE NoRender(info_overlay)

\* The body of prev_page().
PrevPageCall ==
    IF source # 0 /\ current_index > 0
    THEN /\ current_index' = current_index - 1
         /\ render_generation' = render_generation + 1
         /\ RenderCurrent(current_index', render_generation', canvas, 0)
    ELSE NoRender(info_overlay)

\* The body of first_page().
FirstPageCall ==
    IF source # 0
    THEN /\ current_index' = 0
         /\ render_generation' = render_generation + 1
         /\ RenderCurrent(current_index', render_generation', canvas, 0)
    ELSE NoRender(info_overlay)

\* The body of last_page().
LastPageCall ==
    IF source # 0
    THEN /\ current_index' = NumPages - 1
         /\ render_generation' = render_generation + 1
         /\ RenderCurrent(current_index', render_generation', canvas, 0)
    ELSE NoRender(info_overlay)

\* What a navigation handler leaves alone.
navFrame == <<source, canvas_properly_sized, first_proper_render_completed,
              canvas, workerVars, lruVars, loadVars, live, peak_live, quitVars, poolVars>>

\* An input event reaches a handler: the window exists and an event is left.
UiEvent(op) ==
    /\ ~quitting
    /\ events < MaxEvents
    /\ events' = events + 1
    /\ last_op' = op

next_page ==
    /\ UiEvent("next_page")
    /\ NextPageCall
    /\ UNCHANGED <<navFrame, debVars>>

prev_page ==
    /\ UiEvent("prev_page")
    /\ PrevPageCall
    /\ UNCHANGED <<navFrame, debVars>>

first_page ==
    /\ UiEvent("first_page")
    /\ FirstPageCall
    /\ UNCHANGED <<navFrame, debVars>>

last_page ==
    /\ UiEvent("last_page")
    /\ LastPageCall
    /\ UNCHANGED <<navFrame, debVars>>

\* A <Configure> event: the canvas takes size sz, then _on_canvas_configure.
on_canvas_configure(sz) ==
    /\ UiEvent("on_canvas_configure")
    /\ canvas' = sz
    /\ IF sz[1] >= ProperSize /\ sz[2] >= ProperSize /\ ~canvas_properly_sized
       THEN /\ canvas_properly_sized' = TRUE
            /\ IF source = 0
               THEN /\ Submit(<<>>)
                    /\ UNCHANGED <<image_cache, current_pil, scroll_offset, info_overlay,
                                   first_proper_render_completed>>
               ELSE RenderCurrentSync(current_index, render_generation, sz, scroll_offset)
       ELSE /\ Submit(<<>>)
            /\ UNCHANGED <<canvas_properly_sized, image_cache, current_pil, scroll_offset,
                           info_overlay, first_proper_render_completed>>
    /\ UNCHANGED <<source, current_index, render_generation, workerVars,
                   lruVars, loadVars, debVars, live, peak_live, quitVars, poolVars>>

\* source.cleanup is set: archives unpack to a temporary place, a directory
\* source has cleanup=None.
HasCleanup(d) == d = 1

\* `if self.source and self.source.cleanup: self.source.cleanup()`, by its
\* effect on the loaded sources.
CleanedUp(bag, d) ==
    IF d # 0 /\ HasCleanup(d) THEN bag (-) SetToBag({d}) ELSE bag

\* `self.source = None`: a source without cleanup goes with its reference.
Dropped(bag, d) ==
    IF d # 0 /\ ~HasCleanup(d) THEN bag (-) SetToBag({d}) ELSE bag

\* `self.source = load_comic(path)`
Loaded(bag, d) == IF d # 0 THEN bag (+) SetToBag({d}) ELSE bag

\* An _open_comic that drops the old source without calling its cleanup.
OpenLive_no_cleanup(path) ==
    LET dropped == Dropped(live, source)
        loaded == Loaded(dropped, load_comic(path))
    IN [live |-> loaded,
        peak |-> Max(BagCardinality(dropped), BagCardinality(loaded))]

\* The loaded sources as _open_comic(path) leaves them, and the most that
\* were live at once on its way: cleanup and drop come first, the load after.
OpenLive(path) ==
    LET dropped == Dropped(CleanedUp(live, source), source)
        loaded == Loaded(dropped, load_comic(path))
    IN [live |-> loaded,
        peak |-> Max(BagCardinality(dropped), BagCardinality(loaded))]

\* The body of _open_comic(path): the old source is cleaned up and dropped,
\* the caches are cleared, then the path is loaded (0 when load_comic raises).
OpenComicCall(path) ==
    /\ source' = load_comic(path)
    /\ live' = OpenLive(path).live
    /\ peak_live' = OpenLive(path).peak
    /\ image_cache' = LRU_clear(image_cache)
    /\ current_pil' = None
    /\ current_index' = 0
    /\ scroll_offset' = 0
    /\ Submit(<<>>)

\* The name under which an _open_comic(path) is noted: load_comic raising
\* ends it with messagebox.showerror.
OpenOp(path) == IF load_comic(path) = 0 THEN "open_comic_failed" ELSE "open_comic"

\* An _open_comic that leaves the scroll offset where the old page had it.
open_comic_keeps_scroll_offset(path) ==
    /\ UiEvent(OpenOp(path))
    /\ source' = load_comic(path)
    /\ live' = OpenLive(path).live
    /\ peak_live' = OpenLive(path).peak
    /\ image_cache' = LRU_clear(image_cache)
    /\ current_pil' = None
    /\ current_index' = 0
    /\ Submit(<<>>)
    /\ UNCHANGED <<scroll_offset, render_generation, info_overlay,
                   canvas_properly_sized, first_proper_render_completed, canvas,
                   workerVars, lruVars, loadVars, debVars, quitVars, poolVars>>

\* An _open_comic that starts the new document at generation 0.
open_comic_resets_generation(path) ==
    /\ UiEvent(OpenOp(path))
    /\ OpenComicCall(path)
    /\ render_generation' = 0
    /\ UNCHANGED <<info_overlay, canvas_properly_sized,
                   first_proper_render_completed, canvas, workerVars, lruVars, loadVars,
                   debVars, quitVars, poolVars>>

open_comic(path) ==
    /\ UiEvent(OpenOp(path))
    /\ OpenComicCall(path)
    /\ UNCHANGED <<render_generation, info_overlay, canvas_properly_sized,
                   first_proper_render_completed, canvas, workerVars, lruVars, loadVars,
                   debVars, quitVars, poolVars>>

\* _update_from_cache(index, img): its three outcomes.
UpdateOutcome(index) ==
    IF source = 0 THEN "no_source"
    ELSE IF index # current_index THEN "index_mismatch"
    ELSE "applied"

\* An _update_from_cache without the index test.
update_from_cache_any_index(index, img) ==
    IF source = 0
    THEN UNCHANGED <<image_cache, current_pil, scroll_offset, first_proper_render_completed>>
    ELSE /\ image_cache' = IF canvas_properly_sized
                           THEN LRU_setitem(image_cache,
                                            <<index, CW(canvas), CH(canvas)>>, img)
                           ELSE image_cache
         /\ current_pil' = img
         /\ scroll_offset' = DisplayOffset(img, canvas, scroll_offset)
         /\ first_proper_render_completed' = TRUE

\* An _update_from_cache that caches whatever the canvas size is.
update_from_cache_always_caches(index, img) ==
    IF UpdateOutcome(index) # "applied"
    THEN UNCHANGED <<image_cache, current_pil, scroll_offset, first_proper_render_completed>>
    ELSE /\ image_cache' = LRU_setitem(image_cache,
                                       <<index, CW(canvas), CH(canvas)>>, img)
         /\ current_pil' = img
         /\ scroll_offset' = DisplayOffset(img, canvas, scroll_offset)
         /\ first_proper_render_completed' = TRUE

update_from_cache(index, img) ==
    IF UpdateOutcome(index) # "applied"
    THEN UNCHANGED <<image_cache, current_pil, scroll_offset, first_proper_render_completed>>
    ELSE /\ image_cache' = IF canvas_properly_sized
                           THEN LRU_setitem(image_cache,
                                            <<index, CW(canvas), CH(canvas)>>, img)
                           ELSE image_cache
         /\ current_pil' = img
         /\ scroll_offset' = DisplayOffset(img, canvas, scroll_offset)
         /\ first_proper_render_completed' = TRUE

\* The event loop runs the oldest idle callback a worker scheduled.
idle_callback ==
    /\ idle # <<>>
    /\ update_from_cache(Head(idle).index, Head(idle).img)
    /\ idle' = Tail(idle)
    /\ last_ui' = [update |-> UpdateOutcome(Head(idle).index), dropped |-> 0]
    /\ last_op' = "update_from_cache"
    /\ UNCHANGED <<source, current_index, render_generation, info_overlay,
                   canvas_properly_sized, canvas, queue, pending, events,
                   num_workers, pc, witem, wsrc, wimg, werr, lruVars, loadVars, debVars,
                   live, peak_live, quitVars, poolVars>>

----------------------------------------------------------------------------
(* ImageWorker._run: one worker thread *)

Workers == 1..num_workers

uiVars == <<source, current_index, render_generation, image_cache,
            current_pil, scroll_offset, info_overlay, canvas_properly_sized,
            first_proper_render_completed, canvas>>

\* The loop body is over for the item held: back to the top of `while True`.
LoopAgain(w) ==
    /\ pc' = [pc EXCEPT ![w] = "get"]
    /\ witem' = [witem EXCEPT ![w] = NoItem]
    /\ wsrc' = [wsrc EXCEPT ![w] = 0]
    /\ wimg' = [wimg EXCEPT ![w] = None]
    /\ pending' = pending (-) SetToBag({witem[w]})

\* A handler outside the loop: the exception ends the thread.
WorkerExcept_exits(w, cause) ==
    /\ pc' = [pc EXCEPT ![w] = "dead"]
    /\ witem' = [witem EXCEPT ![w] = NoItem]
    /\ wsrc' = [wsrc EXCEPT ![w] = 0]
    /\ wimg' = [wimg EXCEPT ![w] = None]
    /\ pending' = pending (-) SetToBag({witem[w]})
    /\ werr' = [werr EXCEPT ![w] = cause]

\* `except Exception as e: logging.error(...)`, then the loop goes on.
WorkerExcept(w, cause) ==
    /\ LoopAgain(w)
    /\ werr' = [werr EXCEPT ![w] = cause]

\* self._queue.get(): blocks while the queue is empty.
WorkerGet(w) ==
    /\ pc[w] = "get"
    /\ queue # <<>>
    /\ witem' = [witem EXCEPT ![w] = QueueGetItem(queue)]
    /\ queue' = QueueGetRest(queue)
    /\ pc' = [pc EXCEPT ![w] = "check"]
    /\ UNCHANGED <<uiVars, num_workers, wsrc, wimg, werr, idle, pending,
                   restVars>>

\* A loop body without the stale test: every item goes on to the fetch.
WorkerCheck_no_stale_test(w) ==
    /\ pc[w] = "check"
    /\ pc' = [pc EXCEPT ![w] = "source"]
    /\ werr' = [werr EXCEPT ![w] = "none"]
    /\ UNCHANGED <<witem, wsrc, wimg, pending>>
    /\ UNCHANGED <<uiVars, queue, num_workers, idle, restVars>>

\* A stale test that takes every foreground item for stale.
WorkerCheck_drops_foreground(w) ==
    /\ pc[w] = "check"
    /\ IF ~witem[w].preload
       THEN LoopAgain(w)
       ELSE /\ pc' = [pc EXCEPT ![w] = "source"]
            /\ UNCHANGED <<witem, wsrc, wimg, pending>>
    /\ werr' = [werr EXCEPT ![w] = "none"]
    /\ UNCHANGED <<uiVars, queue, num_workers, idle, restVars>>

\* The stale test against app._render_generation; `continue` when stale.
WorkerCheck(w) ==
    /\ pc[w] = "check"
    /\ IF ~witem[w].preload /\ witem[w].gen # render_generation
       THEN LoopAgain(w)
       ELSE /\ pc' = [pc EXCEPT ![w] = "source"]
            /\ UNCHANGED <<witem, wsrc, wimg, pending>>
    /\ werr' = [werr EXCEPT ![w] = "none"]
    /\ UNCHANGED <<uiVars, queue, num_workers, idle, restVars>>

\* self._app.source.get_bytes: the first read of app.source.
WorkerSource(w) ==
    /\ pc[w] = "source"
    /\ IF source = 0
       THEN WorkerExcept(w, "source_none")
       ELSE /\ wsrc' = [wsrc EXCEPT ![w] = source]
            /\ pc' = [pc EXCEPT ![w] = "fetch"]
            /\ UNCHANGED <<witem, wimg, werr, pending>>
    /\ UNCHANGED <<uiVars, queue, num_workers, idle, restVars>>

\* self._app.source.pages[index] (the second read), get_bytes, get_resized_pil.
WorkerFetch(w) ==
    /\ pc[w] = "fetch"
    /\ IF source = 0
       THEN WorkerExcept(w, "source_none")
       ELSE IF witem[w].index >= NumPages
       THEN WorkerExcept(w, "index")
       ELSE LET name == PageName(witem[w].index)
            IN IF \A i \in 1..Len(DocPages(wsrc[w])) : DocPages(wsrc[w])[i] # name
               THEN WorkerExcept(w, "get_bytes")
               ELSE IF is_text_name(name)
               THEN WorkerExcept(w, "resize")
               ELSE \E outcome \in {"ok", "get_bytes", "resize"} :
                      IF outcome # "ok"
                      THEN WorkerExcept(w, outcome)
                      ELSE /\ wimg' = [wimg EXCEPT ![w] =
                                         ResizedImage(wsrc[w], name,
                                                      witem[w].width, witem[w].height)]
                           /\ pc' = [pc EXCEPT ![w] = "handoff"]
                           /\ UNCHANGED <<witem, wsrc, werr, pending>>
    /\ UNCHANGED <<uiVars, queue, num_workers, idle, restVars>>

\* A hand-off that stores the result in the cache from the worker thread.
WorkerHandoff_writes_cache(w) ==
    /\ pc[w] = "handoff"
    /\ image_cache' = LRU_setitem(image_cache,
                                  <<witem[w].index, witem[w].width, witem[w].height>>,
                                  wimg[w])
    /\ LoopAgain(w)
    /\ UNCHANGED <<source, current_index, render_generation, current_pil, scroll_offset,
                   info_overlay, canvas_properly_sized,
                   first_proper_render_completed, canvas, queue, num_workers,
                   idle, werr, restVars>>

\* self._app.after_idle(lambda ...): schedules the callback, or raises.
WorkerHandoff(w) ==
    /\ pc[w] = "handoff"
    /\ \E scheduled \in BOOLEAN :
         IF scheduled
         THEN /\ idle' = Append(idle, [index |-> witem[w].index, img |-> wimg[w],
                                       item |-> witem[w]])
              /\ LoopAgain(w)
              /\ UNCHANGED werr
         ELSE WorkerExcept(w, "after_idle") /\ UNCHANGED idle
    /\ UNCHANGED <<uiVars, queue, num_workers, restVars>>

----------------------------------------------------------------------------
(* The viewer after construction, and its steps *)

NoEntry == [key |-> <<-1, 0, 0>>, value |-> None, stamp |-> 0, born |-> 0]

lruIdle ==
    /\ lru = LRUCache(1)
    /\ ref = {}
    /\ clock = 0
    /\ last_evict = NoEntry

\* No path has been handed to a loader and no names to natural_key.
NoSource ==
    [status |-> "none", pages |-> <<>>, has_cleanup |-> FALSE, files |-> {},
     error |-> "none"]

NoBytes == [status |-> "none", name |-> <<>>]

keyIdle ==
    /\ key_names = << <<>>, <<>> >>
    /\ key_order = "none"

sourceIdle ==
    /\ container = [kind |-> "none", entries |-> <<>>]
    /\ page_source = NoSource
    /\ handle = "none"
    /\ tmpdir = "none"
    /\ got = NoBytes
    /\ cleanups = [calls |-> 0, raised |-> FALSE, done |-> FALSE]

loadIdle == keyIdle /\ sourceIdle

debIdle ==
    /\ timer_id = 0
    /\ tk_after = {}
    /\ after_seq = 0
    /\ calls = <<>>
    /\ bursts = 0
    /\ last_args = "none"

\* The viewer with page 0 of its document on display as img (None: nothing
\* shown yet); a displayed image came through _update_from_cache.
viewerShowing(img) ==
    /\ \E path \in Paths : source = load_comic(path)
    /\ current_index = 0
    /\ render_generation = 0
    /\ image_cache = LRUCache(CacheMaxSize)
    /\ current_pil = img
    /\ scroll_offset = 0
    /\ info_overlay = FALSE
    /\ canvas_properly_sized = FALSE
    /\ first_proper_render_completed = (img # None)
    /\ canvas = <<1, 1>>
    /\ queue = <<>>
    /\ num_workers \in WorkerCounts
    /\ pc = [w \in 1..num_workers |-> "get"]
    /\ witem = [w \in 1..num_workers |-> NoItem]
    /\ wsrc = [w \in 1..num_workers |-> 0]
    /\ wimg = [w \in 1..num_workers |-> None]
    /\ werr = [w \in 1..num_workers |-> "none"]
    /\ idle = <<>>
    /\ pending = EmptyBag
    /\ events = 0
    /\ last_ui = [update |-> "none", dropped |-> 0]
    /\ last_op = (IF source = 0 THEN "open_comic_failed" ELSE "open_comic")
    /\ live = Loaded(EmptyBag, source)
    /\ peak_live = BagCardinality(live)
    /\ quitting = FALSE
    /\ dialog_active = FALSE
    /\ pending_quit = FALSE
    /\ destroyed = 0
    /\ stopped = FALSE
    /\ threads = [i \in 1..num_workers |-> i]
    /\ stop_pc = "idle"
    /\ join_raised = {}

\* The viewer after construction: nothing is shown yet.
viewerInit == viewerShowing(None)

Init == viewerInit /\ lruIdle /\ debIdle /\ loadIdle

Next ==
    \/ next_page
    \/ prev_page
    \/ first_page
    \/ last_page
    \/ \E sz \in CanvasSizes : on_canvas_configure(sz)
    \/ \E path \in Paths : open_comic(path)
    \/ idle_callback
    \/ \E w \in Workers : WorkerGet(w)
    \/ \E w \in Workers : WorkerCheck(w)
    \/ \E w \in Workers : WorkerSource(w)
    \/ \E w \in Workers : WorkerFetch(w)
    \/ \E w \in Workers : WorkerHandoff(w)

Spec == Init /\ [][Next]_vars

----------------------------------------------------------------------------
(* LRUCache driven directly: any sequence of its operations on a small      *)
(* cache, next to a reference map that stamps each entry with its last      *)
(* touch and evicts the entry with the oldest stamp.                        *)

LruKeys == { <<0, 100, 100>>, <<1, 100, 100>>, <<0, 200, 100>> }

LruValues == { ResizedImage(1, DocPages(1)[1], 100, 100),
               ResizedImage(1, DocPages(1)[2], 100, 100) }

RefHas(r, key) == \E e \in r : e.key = key

RefOldest(r) == CHOOSE e \in r : \A f \in r : e.stamp <= f.stamp

RefTouch(r, key, t) ==
    { IF e.key = key THEN [e EXCEPT !.stamp = t] ELSE e : e \in r }

RefPut(r, key, value, t, capacity) ==
    IF RefHas(r, key)
    THEN { IF e.key = key THEN [e EXCEPT !.value = value, !.stamp = t] ELSE e : e \in r }
    ELSE (IF Cardinality(r) >= capacity THEN r \ {RefOldest(r)} ELSE r)
           \cup {[key |-> key, value |-> value, stamp |-> t, born |-> t]}

cache_setitem(key, value) ==
    /\ clock < MaxOps
    /\ clock' = clock + 1
    /\ lru' = LRU_setitem(lru, key, value)
    /\ ref' = RefPut(ref, key, value, clock', lru.maxsize)
    /\ last_evict' = IF ~RefHas(ref, key) /\ Cardinality(ref) >= lru.maxsize
                     THEN RefOldest(ref) ELSE last_evict
    /\ UNCHANGED <<viewerVars, image_cache, debVars, loadVars>>

cache_get(key) ==
    /\ clock < MaxOps
    /\ clock' = clock + 1
    /\ lru' = LRU_get(lru, key)
    /\ ref' = RefTouch(ref, key, clock')
    /\ UNCHANGED <<last_evict, viewerVars, image_cache, debVars, loadVars>>

cache_getitem(key) ==
    /\ clock < MaxOps
    /\ clock' = clock + 1
    /\ IF LRU_getitem_raises(lru, key)
       THEN UNCHANGED <<lru, ref>>
       ELSE lru' = LRU_getitem(lru, key) /\ ref' = RefTouch(ref, key, clock')
    /\ UNCHANGED <<last_evict, viewerVars, image_cache, debVars, loadVars>>

cache_clear ==
    /\ lru.cache # <<>>
    /\ lru' = LRU_clear(lru)
    /\ ref' = {}
    /\ UNCHANGED <<clock, last_evict, viewerVars, image_cache, debVars, loadVars>>

\* The viewer at rest, for the specifications that drive one object alone.
viewerIdle ==
    /\ source = 0
    /\ current_index = 0
    /\ render_generation = 0
    /\ image_cache = LRUCache(CacheMaxSize)
    /\ current_pil = None
    /\ scroll_offset = 0
    /\ info_overlay = FALSE
    /\ canvas_properly_sized = FALSE
    /\ first_proper_render_completed = FALSE
    /\ canvas = <<1, 1>>
    /\ queue = <<>>
    /\ num_workers = 1
    /\ pc = [w \in 1..1 |-> "get"]
    /\ witem = [w \in 1..1 |-> NoItem]
    /\ wsrc = [w \in 1..1 |-> 0]
    /\ wimg = [w \in 1..1 |-> None]
    /\ werr = [w \in 1..1 |-> "none"]
    /\ idle = <<>>
    /\ pending = EmptyBag
    /\ events = 0
    /\ last_ui = [update |-> "none", dropped |-> 0]
    /\ last_op = "open_comic"
    /\ live = EmptyBag
    /\ peak_live = 0
    /\ quitting = FALSE
    /\ dialog_active = FALSE
    /\ pending_quit = FALSE
    /\ destroyed = 0
    /\ stopped = FALSE
    /\ threads = <<1>>
    /\ stop_pc = "idle"
    /\ join_raised = {}

InitLRU ==
    /\ viewerIdle
    /\ debIdle
    /\ loadIdle
    /\ \E maxsize \in 1..MaxCap : lru = LRUCache(maxsize)
    /\ ref = {}
    /\ clock = 0
    /\ last_evict = NoEntry

NextLRU ==
    \/ \E key \in LruKeys, value \in LruValues : cache_setitem(key, value)
    \/ \E key \in LruKeys : cache_get(key)
    \/ \E key \in LruKeys : cache_getitem(key)
    \/ cache_clear

SpecLRU == InitLRU /\ [][NextLRU]_vars

----------------------------------------------------------------------------
(* Debouncer driven directly, with Tk's timer table: `after` hands out a    *)
(* fresh id and files the wrapper, `after_cancel` removes it, and the event *)
(* loop runs a filed wrapper when its delay has passed.                     *)

DebArgs == {"next", "prev", "space"}

\* app.after_cancel(id): the timer, if still filed, is dropped.
after_cancel(timers, id) == { t \in timers : t.id # id }

\* app.after(delay, wrapper): a wrapper closed over args, filed under a new id.
after(timers, id, args) == timers \cup {[id |-> id, args |-> args]}

\* A trigger that schedules without cancelling the pending timer.
trigger_no_cancel(args) ==
    /\ after_seq < MaxAfter
    /\ after_seq' = after_seq + 1
    /\ tk_after' = after(tk_after, after_seq', args)
    /\ timer_id' = after_seq'
    /\ bursts' = IF tk_after = {} THEN bursts + 1 ELSE bursts
    /\ last_args' = args
    /\ UNCHANGED <<calls, viewerVars, image_cache, lruVars, loadVars>>

\* Debouncer.trigger(*args)
trigger(args) ==
    /\ after_seq < MaxAfter
    /\ after_seq' = after_seq + 1
    /\ LET kept == IF timer_id # 0 THEN after_cancel(tk_after, timer_id)
                   ELSE tk_after
       IN tk_after' = after(kept, after_seq', args)
    /\ timer_id' = after_seq'
    /\ bursts' = IF tk_after = {} THEN bursts + 1 ELSE bursts
    /\ last_args' = args
    /\ UNCHANGED <<calls, viewerVars, image_cache, lruVars, loadVars>>

\* A filed timer comes due: wrapper() runs the callback, then clears _timer_id
\* unless the callback raised.
timer_fires(t) ==
    /\ t \in tk_after
    /\ tk_after' = tk_after \ {t}
    /\ calls' = Append(calls, t.args)
    /\ \E raised \in BOOLEAN : timer_id' = IF raised THEN timer_id ELSE 0
    /\ UNCHANGED <<after_seq, bursts, last_args, viewerVars, image_cache, lruVars, loadVars>>

InitDebounce == viewerIdle /\ lruIdle /\ debIdle /\ loadIdle

NextDebounce ==
    \/ \E args \in DebArgs : trigger(args)
    \/ \E t \in tk_after : timer_fires(t)

SpecDebounce == InitDebounce /\ [][NextDebounce]_vars

----------------------------------------------------------------------------
(* Debounced navigation: _trigger_next, _trigger_prev and _trigger_space    *)
(* hand `lambda: self.next_page()` and the like to the viewer's Debouncer,  *)
(* whose timer runs _execute_page_change(action).                           *)

\* The body of _space_advance(): the overlay is dismissed and the page turned,
\* or the page is turned when nothing is shown or the image is at its end,
\* or the image is scrolled.
SpaceAdvanceCall ==
    IF info_overlay
    THEN IF source # 0 /\ current_index < NumPages - 1
         THEN NextPageCall
         ELSE NoRender(FALSE)
    ELSE IF current_pil = None
    THEN NextPageCall
    ELSE LET max_offset == MaxOffset(current_pil, canvas)
         IN IF max_offset = 0 \/ scroll_offset >= max_offset
            THEN NextPageCall
            ELSE /\ scroll_offset' = Min(max_offset, scroll_offset + CH(canvas))
                 /\ Submit(<<>>)
                 /\ UNCHANGED <<current_index, render_generation, image_cache,
                                current_pil, info_overlay>>

\* _execute_page_change(action): action()
execute_page_change(action) ==
    CASE action = "next" -> NextPageCall
      [] action = "prev" -> PrevPageCall
      [] action = "space" -> SpaceAdvanceCall

\* The Debouncer's timer comes due: wrapper() runs _execute_page_change with
\* the action it was closed over, then clears _timer_id unless that raised.
nav_timer_fires(t) ==
    /\ ~quitting
    /\ t \in tk_after
    /\ tk_after' = tk_after \ {t}
    /\ calls' = Append(calls, t.args)
    /\ execute_page_change(t.args)
    /\ \E raised \in BOOLEAN : timer_id' = IF raised THEN timer_id ELSE 0
    /\ last_op' = "execute_page_change"
    /\ UNCHANGED <<after_seq, bursts, last_args, events, navFrame>>

\* The UI thread alone, from the viewer after construction or with the first
\* page of its document already decoded at the 1x1 canvas and on display.
InitNav ==
    /\ \/ viewerShowing(None)
       \/ viewerShowing(ResizedImage(1, DocPages(1)[1], 1, 1)) /\ source = 1
    /\ lruIdle
    /\ debIdle
    /\ loadIdle

NextNav ==
    \/ \E args \in DebArgs : trigger(args)
    \/ \E t \in tk_after : nav_timer_fires(t)

SpecNav == InitNav /\ [][NextNav]_vars

----------------------------------------------------------------------------
(* The life of a page source: _open_comic directly or through the open      *)
(* dialog, whose wait_window runs a nested event loop, and _quit.           *)

\* What the open dialog and _quit leave alone.
docFrame == <<render_generation, info_overlay, canvas_properly_sized,
              first_proper_render_completed, canvas, workerVars, lruVars, loadVars,
              debVars, poolVars>>

\* The viewer's fields that only _open_comic writes here.
openVars == <<source, live, peak_live, image_cache, current_pil, scroll_offset, current_index>>

\* `if self.source and self.source.cleanup: self.source.cleanup()` in _quit.
QuitLive(bag, d) == CleanedUp(bag, d)

\* _open_dialog up to wait_window: a second dialog is refused.
open_dialog ==
    /\ UiEvent("open_dialog")
    /\ dialog_active' = TRUE
    /\ Submit(<<>>)
    /\ UNCHANGED <<openVars, quitting, pending_quit, destroyed, docFrame>>

\* _open_dialog from the return of wait_window: the chosen path, if any, is
\* opened, the dialog is over, and a quit asked for meanwhile is carried out.
open_dialog_returns(chosen, path) ==
    /\ ~quitting
    /\ dialog_active
    /\ dialog_active' = FALSE
    /\ pending_quit' = FALSE
    /\ last_op' = (IF chosen THEN OpenOp(path) ELSE "open_dialog")
    /\ IF chosen
       THEN /\ source' = load_comic(path)
            /\ peak_live' = OpenLive(path).peak
            /\ live' = IF pending_quit
                       THEN QuitLive(OpenLive(path).live, source')
                       ELSE OpenLive(path).live
            /\ image_cache' = LRU_clear(image_cache)
            /\ current_pil' = None
            /\ current_index' = 0
            /\ scroll_offset' = 0
            /\ Submit(<<>>)
       ELSE /\ live' = IF pending_quit THEN QuitLive(live, source) ELSE live
            /\ Submit(<<>>)
            /\ UNCHANGED <<source, peak_live, image_cache, current_pil,
                           scroll_offset, current_index>>
    /\ quitting' = pending_quit
    /\ destroyed' = (IF pending_quit THEN destroyed + 1 ELSE destroyed)
    /\ UNCHANGED <<events, docFrame>>

\* _quit(): put off while a dialog is up, else the source is cleaned up and
\* the window destroyed.
quit ==
    /\ UiEvent("quit")
    /\ Submit(<<>>)
    /\ IF dialog_active
       THEN /\ pending_quit' = TRUE
            /\ UNCHANGED <<quitting, live, destroyed>>
       ELSE /\ quitting' = TRUE
            /\ live' = QuitLive(live, source)
            /\ destroyed' = destroyed + 1
            /\ UNCHANGED pending_quit
    /\ UNCHANGED <<source, peak_live, image_cache, current_pil, scroll_offset, current_index,
                   dialog_active, docFrame>>

\* A _quit() that carries on although quitting has begun.
quit_again_no_guard ==
    /\ quitting
    /\ events < MaxEvents
    /\ events' = events + 1
    /\ last_op' = "quit"
    /\ Submit(<<>>)
    /\ IF dialog_active
       THEN /\ pending_quit' = TRUE
            /\ UNCHANGED <<quitting, live, destroyed>>
       ELSE /\ quitting' = TRUE
            /\ live' = QuitLive(live, source)
            /\ destroyed' = destroyed + 1
            /\ UNCHANGED pending_quit
    /\ UNCHANGED <<source, peak_live, image_cache, current_pil, scroll_offset, current_index,
                   dialog_active, docFrame>>

\* _quit() called again once quitting has begun: `if self._quitting: return`.
quit_again ==
    /\ quitting
    /\ events < MaxEvents
    /\ events' = events + 1
    /\ last_op' = "quit_ignored"
    /\ Submit(<<>>)
    /\ UNCHANGED <<openVars, quitVars, docFrame>>

NextDoc ==
    \/ \E path \in Paths : open_comic(path)
    \/ open_dialog
    \/ \E chosen \in BOOLEAN, path \in Paths : open_dialog_returns(chosen, path)
    \/ quit
    \/ quit_again
    \/ \E sz \in CanvasSizes : on_canvas_configure(sz)

SpecDoc == Init /\ [][NextDoc]_vars

----------------------------------------------------------------------------
(* ImageWorker with stop(): the pool owns a stopped flag, each worker tests *)
(* it after the pop at the top of its loop and exits when it is raised;     *)
(* stop() raises the flag, drains the queue and wakes every worker with a   *)
(* sentinel, joins every thread whatever a join raises, and empties the     *)
(* thread list.                                                             *)

\* The value stop() queues to wake a worker blocked in get().
StopItem == [priority |-> -1, index |-> -1, width |-> 0, height |-> 0,
             preload |-> FALSE, gen |-> -1]

RECURSIVE Sentinels(_)
Sentinels(n) == IF n = 0 THEN <<>> ELSE Append(Sentinels(n - 1), StopItem)

\* What stop() and the stop test leave alone.
stopFrame == <<uiVars, num_workers, wsrc, wimg, werr, idle, events, last_ui,
               last_op, live, peak_live, quitVars, lruVars, loadVars, debVars>>

\* The UI thread is not inside stop().
UiFree == stop_pc \in {"idle", "done"}

\* request_page(index, ...) on a pool with a stopped flag: a stopped pool
\* accepts nothing.
pool_request_page(index, is_preload) ==
    /\ UiFree
    /\ UiEvent("request_page")
    /\ IF stopped
       THEN Submit(<<>>)
       ELSE Submit(<<Request(index, CW(canvas), CH(canvas), is_preload,
                             render_generation)>>)
    /\ UNCHANGED <<uiVars, workerVars, live, peak_live, quitVars, poolVars,
                   lruVars, loadVars, debVars>>

\* The event loop runs an idle callback when the UI thread is free.
pool_idle_callback == UiFree /\ idle_callback

\* The stop test after the pop: a raised flag ends the thread, otherwise the
\* loop body goes on with the stale test.
PoolCheck(w) ==
    /\ pc[w] = "check"
    /\ IF stopped
       THEN /\ pc' = [pc EXCEPT ![w] = "dead"]
            /\ witem' = [witem EXCEPT ![w] = NoItem]
            /\ pending' = pending (-) SetToBag({witem[w]})
            /\ UNCHANGED <<queue, stopFrame, poolVars>>
       ELSE WorkerCheck(w)

\* stop(): the flag is raised.
stop_signal ==
    /\ stop_pc = "idle"
    /\ stopped' = TRUE
    /\ stop_pc' = "drain"
    /\ UNCHANGED <<queue, pending, pc, witem, threads, join_raised, stopFrame>>

\* stop(): the queue is drained and one sentinel per thread is queued.
stop_drain ==
    /\ stop_pc = "drain"
    /\ queue' = Sentinels(Len(threads))
    /\ pending' = pending (-) SeqToBag(queue)
    /\ stop_pc' = "join"
    /\ UNCHANGED <<pc, witem, stopped, threads, join_raised, stopFrame>>

\* A stop() that lets the exception of a join end it.
stop_join_propagates(raised) ==
    /\ stop_pc = "join"
    /\ threads # <<>>
    /\ IF raised
       THEN /\ join_raised' = join_raised \cup {Head(threads)}
            /\ stop_pc' = "done"
            /\ UNCHANGED threads
       ELSE /\ pc[Head(threads)] = "dead"
            /\ threads' = Tail(threads)
            /\ UNCHANGED <<join_raised, stop_pc>>
    /\ UNCHANGED <<queue, pending, pc, witem, stopped, stopFrame>>

\* stop(): the next thread is joined; join returns once the thread has
\* ended, or raises, and the loop goes on to the next thread either way.
stop_join(raised) ==
    /\ stop_pc = "join"
    /\ threads # <<>>
    /\ IF raised
       THEN join_raised' = join_raised \cup {Head(threads)}
       ELSE pc[Head(threads)] = "dead" /\ UNCHANGED join_raised
    /\ threads' = Tail(threads)
    /\ UNCHANGED <<queue, pending, pc, witem, stopped, stop_pc, stopFrame>>

\* stop(): every thread was joined, the list is empty, stop() returns.
stop_return ==
    /\ stop_pc = "join"
    /\ threads = <<>>
    /\ stop_pc' = "done"
    /\ UNCHANGED <<queue, pending, pc, witem, stopped, threads, join_raised,
                   stopFrame>>

NextStop ==
    \/ \E index \in 0..1, is_preload \in BOOLEAN : pool_request_page(index, is_preload)
    \/ pool_idle_callback
    \/ \E w \in Workers : WorkerGet(w)
    \/ \E w \in Workers : PoolCheck(w)
    \/ \E w \in Workers : WorkerSource(w)
    \/ \E w \in Workers : WorkerFetch(w)
    \/ \E w \in Workers : WorkerHandoff(w)
    \/ stop_signal
    \/ stop_drain
    \/ \E raised \in BOOLEAN : stop_join(raised)
    \/ stop_return

SpecStop == Init /\ [][NextStop]_vars

----------------------------------------------------------------------------
(* natural_key applied to two names, as list.sort(key=natural_key) compares *)
(* them.                                                                    *)

KeyChars == {"0", "1", "9", "a", "A"}

KeyNames == UNION { [1..k -> KeyChars] : k \in 0..MaxLen }

compare_keys ==
    /\ key_order = "none"
    /\ key_order' = KeyCmp(natural_key(key_names[1]), natural_key(key_names[2]))
    /\ UNCHANGED <<key_names, container, page_source, handle, tmpdir, got, cleanups,
                   viewerVars, image_cache, lruVars, debVars>>

InitKey ==
    /\ viewerIdle
    /\ lruIdle
    /\ debIdle
    /\ sourceIdle
    /\ key_names \in KeyNames \X KeyNames
    /\ key_order = "none"

NextKey == compare_keys

SpecKey == InitKey /\ [][NextKey]_vars

----------------------------------------------------------------------------
(* The loaders: a container is handed to its loader, and the page source    *)
(* that comes back is asked for bytes and cleaned up.                       *)

Jpg == <<".", "j", "p", "g">>

File(name) == [name |-> name, file |-> TRUE]

Dir(name) == [name |-> name, file |-> FALSE]

\* The entries containers are made of: pages to be ordered, two of them with
\* the same natural key, an info file, a file of another type, a directory.
EntryPool ==
    { File(<<"p", "2">> \o Jpg), File(<<"p", "1", "0">> \o Jpg),
      File(<<"p", "0", "2">> \o Jpg), File(<<"r", ".", "t", "x", "t">>),
      File(<<"t", ".", "d", "b">>), Dir(<<"d", "/">>) }

\* A listing names each entry once.
Listings ==
    { s \in UNION { [1..n -> EntryPool] : n \in 0..MaxEntries } :
        \A i, j \in 1..Len(s) : i # j => s[i] # s[j] }

Kinds == {"cbz", "cbr", "tar", "dir", "image"}

\* The names get_bytes is asked for: one the pool has, one no container has.
MissingName == <<"x">> \o Jpg

AskedNames == { <<"p", "2">> \o Jpg, MissingName }

\* The names whose extraction may fail in one load_cbr: none, or one entry.
BadSets(es) == {{}} \cup { {es[i].name} : i \in 1..Len(es) }

loadFrame == <<key_names, key_order, viewerVars, image_cache, lruVars, debVars>>

\* load_cbz, load_cbr, load_tar, load_directory or load_image_file on the
\* container; open_ok: the archive opens (the path is a directory), rm_ok:
\* a removal of the scratch directory succeeds.
load(open_ok, bad, rm_ok) ==
    /\ page_source.status = "none"
    /\ \E r \in { LoadKind(container, open_ok, bad, rm_ok) } :
          /\ page_source' = r.source
          /\ handle' = r.handle
          /\ tmpdir' = r.tmpdir
    /\ UNCHANGED <<container, got, cleanups, loadFrame>>

\* source.get_bytes(name) on the source the loader returned.
get_bytes(name) ==
    /\ page_source.status = "ok"
    /\ got' = [status |-> GetBytes(container, page_source, handle, tmpdir, name),
               name |-> name]
    /\ UNCHANGED <<container, page_source, handle, tmpdir, cleanups, loadFrame>>

\* zf.close() / tf.close(): raises when ~ok; a close that fails may or may
\* not have released the handle.  A closed handle closes again in silence.
CloseOutcomes(h, ok) ==
    IF h # "open" THEN { [handle |-> h, raises |-> FALSE] }
    ELSE IF ok THEN { [handle |-> "closed", raises |-> FALSE] }
    ELSE { [handle |-> "open", raises |-> TRUE], [handle |-> "closed", raises |-> TRUE] }

\* shutil.rmtree(tmpdir): raises when the directory is gone or the removal
\* fails.
RmtreeOutcome(dir, ok) ==
    IF ~Exists(dir) THEN [tmpdir |-> dir, raises |-> TRUE]
    ELSE [tmpdir |-> rmtree(ok), raises |-> ~ok]

\* The resource behind the source is released.
Released(h, dir) == h # "open" /\ ~Exists(dir)

\* A cleanup whose close or rmtree is not wrapped in try/except.
cleanup_propagates(ok) ==
    /\ page_source.status = "ok"
    /\ page_source.has_cleanup
    /\ cleanups.calls < MaxCleanups
    /\ \E c \in CloseOutcomes(handle, ok) :
         LET r == RmtreeOutcome(tmpdir, ok)
             archive == container.kind \in {"cbz", "tar"}
         IN /\ handle' = IF archive THEN c.handle ELSE handle
            /\ tmpdir' = IF archive THEN tmpdir ELSE r.tmpdir
            /\ cleanups' = [calls |-> cleanups.calls + 1,
                            raised |-> cleanups.raised
                                         \/ IF archive THEN c.raises ELSE r.raises,
                            done |-> cleanups.done \/ ok]
    /\ UNCHANGED <<container, page_source, got, loadFrame>>

\* source.cleanup(): the close or the rmtree runs inside try/except
\* Exception, which logs the failure.
cleanup(ok) ==
    /\ page_source.status = "ok"
    /\ page_source.has_cleanup
    /\ cleanups.calls < MaxCleanups
    /\ \E c \in CloseOutcomes(handle, ok) :
         LET r == RmtreeOutcome(tmpdir, ok)
             archive == container.kind \in {"cbz", "tar"}
         IN /\ handle' = IF archive THEN c.handle ELSE handle
            /\ tmpdir' = IF archive THEN tmpdir ELSE r.tmpdir
            /\ cleanups' = [calls |-> cleanups.calls + 1,
                            raised |-> cleanups.raised,
                            done |-> cleanups.done \/ ok]
    /\ UNCHANGED <<container, page_source, got, loadFrame>>

InitLoad ==
    /\ viewerIdle
    /\ lruIdle
    /\ debIdle
    /\ keyIdle
    /\ container \in { c \in [kind : Kinds, entries : Listings] :
                         c.kind = "image" => Len(c.entries) = 1 }
    /\ page_source = NoSource
    /\ handle = "none"
    /\ tmpdir = "none"
    /\ got = NoBytes
    /\ cleanups = [calls |-> 0, raised |-> FALSE, done |-> FALSE]

NextLoad ==
    \/ \E open_ok \in BOOLEAN, bad \in BadSets(container.entries), rm_ok \in BOOLEAN :
         load(open_ok, bad, rm_ok)
    \/ \E name \in AskedNames : get_bytes(name)
    \/ \E ok \in BOOLEAN : cleanup(ok)

SpecLoad == InitLoad /\ [][NextLoad]_vars

----------------------------------------------------------------------------
(* Properties *)

\* The step in which the event loop runs the oldest idle callback.
UpdateStep == idle # <<>> /\ idle' = Tail(idle)

\* The step in which worker w returns from self._queue.get().
GetStep(w) == pc[w] = "get" /\ pc'[w] = "check"

\* A step of a ComicViewer input handler.
HandlerStep == events' # events

HasTier(q, p) == \E i \in 1..Len(q) : q[i].priority = p

FirstOfTier(q, p) ==
    q[CHOOSE i \in 1..Len(q) :
        q[i].priority = p /\ \A j \in 1..(i - 1) : q[j].priority # p]

RECURSIVE HeldBag(_)
HeldBag(n) ==
    IF n = 0 THEN EmptyBag
    ELSE (IF pc[n] = "get" THEN EmptyBag ELSE SetToBag({witem[n]}))
           (+) HeldBag(n - 1)

\* C1: the result of a foreground work item tagged with generation G is
\* neither inserted into the render cache nor displayed when, at the moment
\* _update_from_cache applies it, the render generation is no longer G.
C1_StaleResultNotApplied ==
    [][ (UpdateStep /\ ~Head(idle).item.preload
           /\ Head(idle).item.gen # render_generation)
        => UNCHANGED <<image_cache, current_pil>> ]_vars

\* C2: _update_from_cache(index, img) with no document open, or with an index
\* other than the current page index, leaves the render cache, the displayed
\* image and the first-render-completed flag as they were.
C2_DiscardChangesNothing ==
    [][ (UpdateStep /\ (source = 0 \/ Head(idle).index # current_index))
        => UNCHANGED <<image_cache, current_pil, first_proper_render_completed>>
      ]_vars

C2_Witness ==
    /\ last_ui.update = "index_mismatch"
    /\ source # 0
    /\ canvas_properly_sized

\* C3: the queue never holds more than its capacity of 4; a handler that
\* calls request_page on a full queue completes with the queue as it was, no
\* handler disturbs the items already queued, and a request is refused only
\* when the queue is full.
C3_FullQueueDrops ==
    /\ [](Len(queue) <= QueueMaxSize)
    /\ [][ HandlerStep =>
             /\ SubSeq(queue', 1, Len(queue)) = queue
             /\ (Len(queue) = QueueMaxSize => queue' = queue)
             /\ (last_ui'.dropped > 0 => Len(queue') = QueueMaxSize) ]_vars

C3_Witness == last_ui.dropped > 0 /\ Len(queue) = QueueMaxSize

\* C4: a worker that dequeues from a queue holding at least one foreground
\* item (priority 0) and at least one speculative item (priority 1) receives
\* a foreground item.
C4_ForegroundFirst ==
    [][ \A w \in Workers :
          (GetStep(w) /\ HasTier(queue, 0) /\ HasTier(queue, 1))
          => witem'[w].priority = 0 ]_vars

C4_Witness ==
    \E w \in Workers :
        /\ pc[w] = "check"
        /\ witem[w].priority = 0
        /\ HasTier(queue, 1)
        /\ HasTier(queue, 0)

\* C5: among queued work items of one priority tier, a worker dequeues the one
\* that was enqueued first.
C5_FifoWithinTier ==
    [][ \A w \in Workers :
          GetStep(w) => witem'[w] = FirstOfTier(queue, witem'[w].priority) ]_vars

\* C6: after any sequence of __setitem__, get, __getitem__ and clear on an
\* LRUCache of capacity C, it holds at most C entries and no key twice.
C6_CacheBounded ==
    /\ Len(lru.cache) <= lru.maxsize
    /\ \A i, j \in 1..Len(lru.cache) :
         lru.cache[i][1] = lru.cache[j][1] => i = j

C6_Witness ==
    /\ last_evict # NoEntry
    /\ Len(lru.cache) = lru.maxsize
    /\ lru.maxsize = MaxCap

\* C7: the cache holds exactly the entries of the reference strict-LRU map,
\* oldest touch first: an insertion at capacity has evicted the one entry
\* touched least recently, a touch being any __setitem__ or any get or
\* __getitem__ that hits.
RefRank(e) == 1 + Cardinality({ f \in ref : f.stamp < e.stamp })

C7_MatchesStrictLRU ==
    /\ Len(lru.cache) = Cardinality(ref)
    /\ \A e \in ref :
         /\ RefRank(e) <= Len(lru.cache)
         /\ lru.cache[RefRank(e)] = <<e.key, e.value>>

C7_Witness ==
    /\ last_evict # NoEntry
    /\ \E e \in ref : e.born < last_evict.born
    /\ Len(lru.cache) = lru.maxsize

\* C8: in a burst of k >= 1 trigger calls, each arriving before the timer
\* scheduled by the one before has fired, the callback runs exactly once,
\* after the last trigger and with the arguments of the last trigger.
C8_OneCallPerBurst ==
    IF tk_after = {}
    THEN /\ Len(calls) = bursts
         /\ bursts > 0 => calls[Len(calls)] = last_args
    ELSE /\ Len(calls) = bursts - 1
         /\ tk_after = {[id |-> after_seq, args |-> last_args]}

C8_Witness ==
    /\ tk_after = {}
    /\ bursts = 1
    /\ after_seq = 3
    /\ calls = <<last_args>>

\* C9: an exception raised while a worker handles an item never ends the
\* worker thread: the item is abandoned and the worker is back at the top of
\* its loop, from where it dequeues the next item.
C9_WorkerSurvives ==
    /\ [](\A w \in Workers : pc[w] \in {"get", "check", "source", "fetch", "handoff"})
    /\ [][ \A w \in Workers :
             (werr[w] = "none" /\ werr'[w] # "none")
             => (pc'[w] = "get" /\ witem'[w] = NoItem) ]_vars

C9_Witness ==
    \E w \in Workers :
        /\ werr[w] = "after_idle"
        /\ pc[w] = "check"
        /\ witem[w] # NoItem

\* C10: with N >= 1 workers on the one queue, every accepted work item that
\* is not yet finished is either still queued or held by exactly one worker.
C10_EachItemOnce == pending = SeqToBag(queue) (+) HeldBag(num_workers)

C10_Witness ==
    /\ num_workers = 2
    /\ pc[1] # "get"
    /\ pc[2] # "get"
    /\ queue # <<>>

C12_OnlyUiThreadWrites ==
    [][ /\ (pc' # pc) =>
             UNCHANGED <<current_index, render_generation, image_cache, source>>
        /\ (<<current_index, render_generation, image_cache, source>>' #
              <<current_index, render_generation, image_cache, source>>) =>
             (pc' = pc /\ (HandlerStep \/ UpdateStep)) ]_vars

\* A worker has decoded the current page and scheduled its callback; the
\* cache is still empty because the UI thread has not run the callback yet.
C12_Witness ==
    /\ idle # <<>>
    /\ Head(idle).index = current_index
    /\ canvas_properly_sized
    /\ image_cache.cache = <<>>
    /\ \A w \in Workers : pc[w] = "get"

\* The handlers that navigate.
NavOps == {"next_page", "prev_page", "first_page", "last_page"}

\* A step in which one of the four navigation methods runs with a document open.
NavStep == HandlerStep /\ last_op' \in NavOps /\ source # 0

\* C13 as stated: every call of next_page, prev_page, first_page or last_page
\* with a document open raises the render generation by exactly 1.
C13_EveryNavCallBumps ==
    [][ NavStep => render_generation' = render_generation + 1 ]_vars

\* C13 amended: first_page and last_page always raise the render generation
\* by exactly 1, next_page and prev_page raise it by exactly 1 when they move
\* the page index, and a next_page on the last page or a prev_page on the
\* first page leaves it as it was.
C13_NavBumpsWhenItMoves ==
    [][ NavStep =>
          IF last_op' \in {"first_page", "last_page"} \/ current_index' # current_index
          THEN render_generation' = render_generation + 1
          ELSE render_generation' = render_generation ]_vars

\* next_page has just moved from page 0 to page 1 and raised the generation
\* from 0 to 1.
C13_Witness ==
    /\ last_op = "next_page"
    /\ current_index = 1
    /\ render_generation = 1
    /\ source = 1

\* C14: the render generation is 0 after construction and no step lowers it:
\* navigation, opening a document, applying a worker result and a canvas
\* resize all leave it equal or larger.
C14_GenerationNeverDecreases ==
    /\ render_generation = 0
    /\ [][ render_generation' >= render_generation ]_vars

\* A document has just been opened after two navigations; the generation is
\* still 2.
C14_Witness ==
    /\ last_op = "open_comic"
    /\ render_generation = 2
    /\ current_index = 0

\* The step in which the Debouncer's timer runs the page change.
NavFireStep == Len(calls') = Len(calls) + 1

\* C15: of a burst of debounced navigation triggers only the last one's
\* action is executed, once: each burst ends with one run of the page change,
\* that run carries the last trigger's action, it moves the page index by at
\* most one, and it raises the render generation by exactly 1 when it
\* navigates and not at all when it does not.
C15_OneNavigationPerBurst ==
    /\ [](/\ Len(calls) <= bursts
          /\ tk_after = {} => Len(calls) = bursts
          /\ render_generation <= Len(calls))
    /\ [][ NavFireStep =>
             /\ calls'[Len(calls')] = last_args
             /\ current_index' - current_index \in {-1, 0, 1}
             /\ render_generation' - render_generation =
                  (IF current_index' # current_index THEN 1 ELSE 0) ]_vars

\* A burst of three triggers has ended with one page change, the last
\* trigger's: the page moved by one and the generation is 1.
C15_Witness ==
    /\ after_seq = 3
    /\ bursts = 1
    /\ tk_after = {}
    /\ calls = <<last_args>>
    /\ current_index = 1
    /\ render_generation = 1

\* The step in which a scheduled result passes both tests of
\* _update_from_cache and is applied.
AppliedStep == UpdateStep /\ UpdateOutcome(Head(idle).index) = "applied"

\* C16: a worker result applied for the current page is always displayed; it
\* is stored in the render cache under (index, canvas width, canvas height)
\* when the canvas is marked properly sized, and the cache is left unchanged
\* when it is not.
C16_CachedOnlyWhenProperlySized ==
    [][ AppliedStep =>
          /\ current_pil' = Head(idle).img
          /\ IF canvas_properly_sized
             THEN LRU_get_value(image_cache',
                                <<Head(idle).index, CW(canvas), CH(canvas)>>)
                    = Head(idle).img
             ELSE image_cache' = image_cache ]_vars

\* A result was applied while the canvas was not yet properly sized: it is on
\* display and the cache is empty.
C16_Witness ==
    /\ last_ui.update = "applied"
    /\ ~canvas_properly_sized
    /\ current_pil # None
    /\ image_cache.cache = <<>>

\* C17: every entry of the render cache under key (i, w, h) holds an image
\* of page i that the resize backend produced for the target size w x h.
C17_CacheKeyMatchesImage ==
    \A n \in 1..Len(image_cache.cache) :
      LET key == image_cache.cache[n][1]
          img == image_cache.cache[n][2]
      IN /\ img.q = "resized"
         /\ img.w = key[2]
         /\ img.h = key[3]
         /\ key[1] + 1 \in 1..Len(DocPages(img.doc))
         /\ img.name = DocPages(img.doc)[key[1] + 1]

\* C18: the handler that renders first after a document was opened finds the
\* cache empty and paints nothing: no preview is put on display, the page
\* stays blank until a worker result is applied.
C18_FirstRenderNoPreview ==
    [][ (last_op = "open_comic" /\ HandlerStep /\ last_op' # "open_comic") =>
          (current_pil' = None /\ image_cache'.cache = <<>>) ]_vars

\* C19: at most one page source is live at any time, also on the way through
\* an _open_comic, and it is the one the viewer refers to; once the viewer
\* has quit, no source with a cleanup is left without it having been invoked.
C19_OneLiveSource ==
    /\ BagCardinality(live) <= 1
    /\ peak_live <= 1
    /\ \A d \in BagToSet(live) : d = source
    /\ quitting => \A d \in BagToSet(live) : ~HasCleanup(d)

\* The viewer has quit with an archive open, after another document had been
\* opened and replaced: nothing is left live.
C19_Witness ==
    /\ quitting
    /\ source = 1
    /\ live = EmptyBag
    /\ events = 3

\* C20: an _open_comic whose load fails leaves the page-source reference and
\* the loaded sources as they were: the previous document stays open and its
\* cleanup is not invoked.
C20_FailedOpenKeepsDocument ==
    [][ (last_op' = "open_comic_failed" /\ (HandlerStep \/ dialog_active' # dialog_active))
          => (source' = source /\ live' = live) ]_vars

\* The names a and b are the same but for one run of digits: a common
\* prefix that ends outside a digit, the runs da and db, a common rest that
\* starts outside a digit.
RunsApart(a, b) ==
    { r \in [pre : 0..Len(a), la : 1..Len(a), lb : 1..Len(b)] :
        /\ r.pre + r.la <= Len(a)
        /\ r.pre + r.lb <= Len(b)
        /\ Len(a) - r.la = Len(b) - r.lb
        /\ SubSeq(a, 1, r.pre) = SubSeq(b, 1, r.pre)
        /\ SubSeq(a, r.pre + r.la + 1, Len(a)) = SubSeq(b, r.pre + r.lb + 1, Len(b))
        /\ \A i \in (r.pre + 1)..(r.pre + r.la) : a[i] \in Digits
        /\ \A i \in (r.pre + 1)..(r.pre + r.lb) : b[i] \in Digits
        /\ r.pre > 0 => a[r.pre] \notin Digits
        /\ r.pre + r.la < Len(a) => a[r.pre + r.la + 1] \notin Digits }

IntOrder(m, n) == IF m < n THEN "lt" ELSE IF m > n THEN "gt" ELSE "eq"

\* C22: two names that are the same but for one run of digits are ordered by
\* natural_key as the integer values of the two runs are ordered (9 before
\* 10, 009 before 010), and two names that differ only in the case of their
\* letters have equal keys.
C22_NumericRunsByValue ==
    key_order # "none" =>
      /\ \A r \in RunsApart(key_names[1], key_names[2]) :
            key_order = IntOrder(int(SubSeq(key_names[1], r.pre + 1, r.pre + r.la)),
                                 int(SubSeq(key_names[2], r.pre + 1, r.pre + r.lb)))
      /\ casefold(key_names[1]) = casefold(key_names[2]) => key_order = "eq"

\* "a9" has been compared with "a10" and came first.
C22_Witness ==
    /\ key_names = << <<"a", "9">>, <<"a", "1", "0">> >>
    /\ key_order = "lt"

\* The names of the file entries of the container with a text/info or an
\* image extension.
PageNames ==
    { container.entries[i].name :
        i \in { j \in 1..Len(container.entries) :
                  /\ container.entries[j].file
                  /\ \/ is_text_name(container.entries[j].name)
                     \/ is_image_name(container.entries[j].name) } }

\* C21: the pages an archive or directory loader returns are exactly the
\* text/info names and the image names of the container's file entries, each
\* once, every text/info name before every image name, and each of the two
\* groups in natural_key order; nothing else is a page.
C21_PagesTextThenImages ==
    (page_source.status = "ok" /\ container.kind # "image") =>
      LET pages == page_source.pages
      IN /\ { pages[i] : i \in 1..Len(pages) } = PageNames
         /\ \A i, j \in 1..Len(pages) : i # j => pages[i] # pages[j]
         /\ \A i, j \in 1..Len(pages) :
              i < j =>
                /\ is_text_name(pages[j]) => is_text_name(pages[i])
                /\ is_text_name(pages[i]) = is_text_name(pages[j])
                     => KeyLessEq(pages[i], pages[j])

\* C23: no two pages of a loaded source have equal natural keys: the page
\* order is a strict total order of the names.
C23_NoTies ==
    page_source.status = "ok" =>
      \A i, j \in 1..Len(page_source.pages) :
         i # j => KeyCmp(natural_key(page_source.pages[i]),
                         natural_key(page_source.pages[j])) # "eq"

\* C24: a loader that returns a page source returns one with at least one
\* page; a loader given a container none of whose file entries has a text or
\* image extension raises (EmptyContent, when the container could be read at
\* all), returns no source and leaves no archive handle open.
C24_NonEmptyOrError ==
    /\ page_source.status = "ok" => page_source.pages # <<>>
    /\ (page_source.status # "none" /\ container.kind # "image"
          /\ PageNames = {}) =>
         /\ page_source.status = "error"
         /\ page_source.error \in {"EmptyContent", "CorruptOrUnreadable", "NotADirectory"}
         /\ handle # "open"

\* load_tar was given an archive of a file of another type and a directory:
\* it raised EmptyContent and closed the archive.
C24_Witness ==
    /\ container.kind = "tar"
    /\ container.entries = << File(<<"t", ".", "d", "b">>), Dir(<<"d", "/">>) >>
    /\ page_source.status = "error"
    /\ page_source.error = "EmptyContent"
    /\ handle = "closed"

\* C25 as stated: after a load_cbr that raised, the scratch directory does
\* not exist; after one that returned, it exists until the first cleanup
\* call and not after it.
C25_ScratchAlwaysRemoved ==
    container.kind = "cbr" =>
      /\ page_source.status = "error" => ~Exists(tmpdir)
      /\ (page_source.status = "ok" /\ cleanups.calls = 0) => tmpdir = "exists"
      /\ (page_source.status = "ok" /\ cleanups.calls > 0) => ~Exists(tmpdir)

\* C25: a load_cbr that raises has run rmtree on its scratch directory
\* first, so the directory is gone unless that removal failed; after a
\* load_cbr that returned, the directory exists until cleanup is called, is
\* gone once the rmtree of a cleanup call has succeeded, and is left behind
\* as long as every such rmtree has failed.
C25_ScratchRemovedUnlessRmtreeFails ==
    container.kind = "cbr" =>
      /\ page_source.status = "error" => tmpdir \in {"removed", "stuck"}
      /\ (page_source.status = "ok" /\ cleanups.calls = 0) => tmpdir = "exists"
      /\ (page_source.status = "ok" /\ cleanups.done) => tmpdir = "removed"
      /\ (page_source.status = "ok" /\ cleanups.calls > 0 /\ ~cleanups.done)
           => tmpdir = "stuck"

\* load_cbr found no page among the entries it extracted, raised, and the
\* scratch directory is gone.
C25_Witness ==
    /\ container.kind = "cbr"
    /\ container.entries # <<>>
    /\ page_source.status = "error"
    /\ page_source.error = "EmptyContent"
    /\ tmpdir = "removed"

\* The exceptions that say the name is not there.
NotFound == {"RuntimeError", "KeyError", "FileNotFoundError"}

\* C26: get_bytes(name) on a source that has not been cleaned up, with a
\* name the container does not list, raises a not-found error and returns no
\* bytes.
C26_MissingNameNotFound ==
    (got.status # "none" /\ cleanups.calls = 0
       /\ \A i \in 1..Len(container.entries) : container.entries[i].name # got.name)
      => got.status \in NotFound

\* C27 as stated: after a second cleanup call, no call has raised and the
\* archive handle is closed and the scratch directory gone, whether or not
\* a close or removal failed.
C27_SecondCleanupReleases ==
    cleanups.calls >= 2 => (~cleanups.raised /\ Released(handle, tmpdir))

\* C27: no cleanup call raises, the first or a later one, whether or not
\* its close or removal fails; once the close or removal of one call has
\* succeeded, the handle is closed and the scratch directory gone, and every
\* later call leaves them so.
C27_CleanupNeverRaises ==
    /\ ~cleanups.raised
    /\ cleanups.done => Released(handle, tmpdir)

\* cleanup has run twice on a source of load_cbr, the second time on a
\* scratch directory that was already gone.
C27_Witness ==
    /\ container.kind = "cbr"
    /\ cleanups.calls = 2
    /\ cleanups.done
    /\ tmpdir = "removed"

\* C28: while a document is open the page index is at least 0 and less
\* than the number of pages, whatever navigation calls and document opens
\* came before; a next_page on the last page and a prev_page on the first
\* page leave the index as it is.
C28_IndexInRange ==
    /\ [](source # 0 => (0 <= current_index /\ current_index < NumPages))
    /\ [][ (HandlerStep /\ source # 0
              /\ \/ last_op' = "next_page" /\ current_index = NumPages - 1
                 \/ last_op' = "prev_page" /\ current_index = 0)
             => current_index' = current_index ]_vars

\* The one call so far was a prev_page on the first page of a document.
C28_Witness ==
    /\ source # 0
    /\ events = 1
    /\ last_op = "prev_page"
    /\ current_index = 0

\* Two keys of one page index that differ in the viewport size.
SamePage(k1, k2) == k1 # k2 /\ k1[1] = k2[1]

\* C29: entries written for one page index under two viewport sizes are two
\* entries, each key returning the image last written under it; a write or
\* a read of one of them leaves the other in the cache with its image
\* whenever the cache has room for both.
C29_SizesDoNotCollide ==
    /\ [](\A e, f \in ref :
            SamePage(e.key, f.key) =>
              /\ LRU_get_value(lru, e.key) = e.value
              /\ LRU_get_value(lru, f.key) = f.value)
    /\ [][ \A k1, k2 \in LruKeys :
             (/\ SamePage(k1, k2)
              /\ LRU_contains(lru, k2)
              /\ LRU_contains(lru, k1) \/ LRU_len(lru) < lru.maxsize
              /\ clock' = clock + 1
              /\ LRU_contains(lru', k1)
              /\ lru'.cache[Len(lru'.cache)][1] = k1)
               => /\ LRU_contains(lru', k2)
                  /\ LRU_get_value(lru', k2) = LRU_get_value(lru, k2) ]_vars

\* Page 0 is cached at 100x100 and at 200x100, under two different images.
C29_Witness ==
    /\ LRU_contains(lru, <<0, 100, 100>>)
    /\ LRU_contains(lru, <<0, 200, 100>>)
    /\ LRU_get_value(lru, <<0, 100, 100>>) # LRU_get_value(lru, <<0, 200, 100>>)

----------------------------------------------------------------------------
(* The viewer and its workers with a canvas whose winfo_width() and         *)
(* winfo_height() can report 0 or a negative number.                        *)

\* What the canvas can report: a degenerate size, or a laid-out one.
ViewportSizes == { <<0, -1>>, <<100, 100>> }

Degenerate(cv) == cv[1] < 1 \/ cv[2] < 1

NextSize ==
    \/ next_page
    \/ prev_page
    \/ first_page
    \/ last_page
    \/ \E sz \in ViewportSizes : on_canvas_configure(sz)
    \/ \E path \in Paths : open_comic(path)
    \/ idle_callback
    \/ \E w \in Workers : WorkerGet(w)
    \/ \E w \in Workers : WorkerCheck(w)
    \/ \E w \in Workers : WorkerSource(w)
    \/ \E w \in Workers : WorkerFetch(w)
    \/ \E w \in Workers : WorkerHandoff(w)

SpecSize == Init /\ [][NextSize]_vars

\* C30: every work item in the queue, held by a worker or counted as
\* pending, and every key of the render cache, has width >= 1 and
\* height >= 1, whatever size the canvas reports, 0 and negative included.
C30_SizesAtLeastOne ==
    /\ \A i \in 1..Len(queue) : queue[i].width >= 1 /\ queue[i].height >= 1
    /\ \A it \in BagToSet(pending) : it.width >= 1 /\ it.height >= 1
    /\ \A w \in Workers :
         witem[w] # NoItem => witem[w].width >= 1 /\ witem[w].height >= 1
    /\ \A i \in 1..Len(image_cache.cache) :
         image_cache.cache[i][1][2] >= 1 /\ image_cache.cache[i][1][3] >= 1

\* next_page ran while the canvas reported 0 x -1, and the request it made
\* for the page it moved to is pending at 1 x 1.
C30_Witness ==
    /\ Degenerate(canvas)
    /\ last_op = "next_page"
    /\ \E it \in BagToSet(pending) :
         /\ it.index = current_index
         /\ it.gen = render_generation
         /\ ~it.preload
         /\ it.width = 1 /\ it.height = 1

\* A step in which _quit() ran, from its first line to its return.
QuitStep == events' # events /\ last_op' \in {"quit", "quit_ignored"}

C32_NoImageOfPreviousDocument ==
    source # 0 =>
      /\ current_pil # None => current_pil.doc = source
      /\ \A i \in 1..Len(image_cache.cache) : image_cache.cache[i][2].doc = source

\* C38: at most one timer of the Debouncer is outstanding, and _timer_id is
\* set exactly when one is, to the id of that timer: Idle has no timer and
\* no _timer_id, PendingDebounce has one timer, the one _timer_id names.
C38_TimerIdMatchesPending ==
    /\ Cardinality(tk_after) <= 1
    /\ (timer_id # 0) <=> (tk_after # {})
    /\ \A t \in tk_after : t.id = timer_id

\* The work items a step placed on the queue.
Enqueued == { it \in BagToSet(pending') : CopiesIn(it, pending') > CopiesIn(it, pending) }

\* C36: every work item placed on the queue, foreground or speculative,
\* has in its generation field the render generation of the moment it was
\* enqueued, which is the generation the enqueuing handler leaves behind.
C36_ItemCarriesGeneration ==
    [][\A it \in Enqueued : it.gen = render_generation']_vars

\* A worker holds a dequeued foreground item whose generation is not the
\* render generation.
StaleHeld(w) ==
    pc[w] = "check" /\ ~witem[w].preload /\ witem[w].gen # render_generation

\* C37: a worker goes on to the fetch of a foreground item only from the
\* stale test and only when the item's generation is the render generation
\* read there; a foreground item that is stale at the test is dropped with
\* no fetch, no decode and no hand-off, and fetch, decode and hand-off are
\* reached only through the test.
C37_StaleForegroundDropped ==
    /\ [][\A w \in Workers :
            (pc[w] = "check" /\ pc'[w] # "check" /\ ~witem[w].preload) =>
              IF witem[w].gen = render_generation
              THEN pc'[w] = "source" /\ witem'[w] = witem[w]
              ELSE /\ pc'[w] = "get"
                   /\ witem'[w] = NoItem
                   /\ wimg'[w] = None
                   /\ idle' = idle]_vars
    /\ [][\A w \in Workers :
            /\ (pc'[w] = "source" /\ pc[w] # "source") => pc[w] = "check"
            /\ (pc'[w] = "fetch" /\ pc[w] # "fetch") => pc[w] = "source"
            /\ (pc'[w] = "handoff" /\ pc[w] # "handoff") => pc[w] = "fetch"
            /\ Len(idle') > Len(idle) => \E v \in Workers : pc[v] = "handoff"]_vars

\* A worker has dequeued a foreground item of generation 1 after the render
\* generation went on to 2.
C37_Witness ==
    \E w \in Workers : StaleHeld(w) /\ witem[w].gen = 1 /\ render_generation = 2

\* A navigation step that ran _render_current on the image page it moved to.
RenderImageStep ==
    /\ NavStep
    /\ render_generation' # render_generation
    /\ ~is_text_name(DocPages(source)[current_index' + 1])

\* The image pages after page i of the open document.
LaterImages(i) ==
    { j \in (i + 1)..(NumPages - 1) : ~is_text_name(DocPages(source)[j + 1]) }

\* The requests a step made: those the queue took and those it refused.
Issued == (Len(queue') - Len(queue)) + last_ui'.dropped

----------------------------------------------------------------------------
(* The viewer and its workers under fair scheduling: a worker thread that   *)
(* can take a step of its loop takes it, and the Tk event loop runs an idle *)
(* callback that is waiting. Input events come when the user makes them;    *)
(* here the user turns pages forward and the window is laid out.            *)

\* Every worker thread a pool can have.
AllWorkers == UNION { 1..n : n \in WorkerCounts }

\* One step of the loop of worker thread w.
WorkerStep(w) ==
    /\ w \in Workers
    /\ \/ WorkerGet(w)
       \/ WorkerCheck(w)
       \/ WorkerSource(w)
       \/ WorkerFetch(w)
       \/ WorkerHandoff(w)

Fairness ==
    /\ WF_vars(idle_callback)
    /\ \A w \in AllWorkers : WF_vars(WorkerStep(w))

NextLive ==
    \/ next_page
    \/ on_canvas_configure(<<ProperSize, ProperSize>>)
    \/ idle_callback
    \/ \E w \in Workers : WorkerGet(w)
    \/ \E w \in Workers : WorkerCheck(w)
    \/ \E w \in Workers : WorkerSource(w)
    \/ \E w \in Workers : WorkerFetch(w)
    \/ \E w \in Workers : WorkerHandoff(w)

SpecLive == Init /\ [][NextLive]_vars /\ Fairness

\* The foreground request for the current page i, an image, is in the queue
\* or held by a worker, at the current render generation.
ForegroundPending(i) ==
    /\ source # 0 /\ current_index = i
    /\ i < NumPages
    /\ ~is_text_name(PageName(i))
    /\ \E it \in BagToSet(pending) :
         ~it.preload /\ it.index = i /\ it.gen = render_generation

\* A fetch, a decode or a hand-off of some worker failed.
WorkFailed == \E w \in Workers : werr[w] # "none"

\* Page i of the open document is on display, and in the render cache under
\* the canvas size when the canvas is marked properly sized.
Shown(i) ==
    /\ source # 0 /\ i < NumPages
    /\ current_pil # None
    /\ current_pil.doc = source /\ current_pil.name = PageName(i)
    /\ canvas_properly_sized =>
         LRU_contains(image_cache, <<i, CW(canvas), CH(canvas)>>)

\* C33: once the foreground request for the current page is accepted, the
\* current page is eventually displayed, and is then in the render cache
\* when the canvas is properly sized, unless a worker's fetch, decode or
\* hand-off fails. (A page turn makes the page turned to the current page,
\* and the request of that turn the pending one.)
C33_ForegroundEventuallyShown ==
    ForegroundPending(current_index) ~> (Shown(current_index) \/ WorkFailed)

\* The page the viewer moved to is on display and cached after its request
\* went through a worker and the idle callback.
C33_Witness ==
    /\ last_op = "update_from_cache"
    /\ current_index = 1
    /\ canvas_properly_sized
    /\ Shown(1)
    /\ pending = EmptyBag

\* The current page is a text page under its info overlay, and the foreground
\* request _render_info_with_image made for the image page after it is in
\* the queue or held by a worker.
InfoRequestPending ==
    /\ source # 0
    /\ is_text_name(PageName(current_index))
    /\ info_overlay
    /\ find_next_image_index(current_index) # -1
    /\ \E it \in BagToSet(pending) :
         /\ ~it.preload
         /\ it.index = find_next_image_index(current_index)
         /\ it.gen = render_generation

\* The image page after the current text page is on display under the overlay.
ImageUnderOverlay ==
    /\ source # 0
    /\ info_overlay
    /\ find_next_image_index(current_index) # -1
    /\ current_pil # None
    /\ current_pil.name = PageName(find_next_image_index(current_index))

\* C35: on a text page followed by an uncached image page, the foreground
\* request of _render_info_with_image eventually puts that image on display
\* beneath the info overlay, unless the user turns the page or a worker's
\* fetch, decode or hand-off fails.
C35_InfoImageEventuallyShown ==
    InfoRequestPending ~>
      (ImageUnderOverlay \/ (source # 0 /\ ~is_text_name(PageName(current_index)))
         \/ WorkFailed)

----------------------------------------------------------------------------
(* Opening documents in a window that is laid out, under fair scheduling:   *)
(* the user opens documents and never turns a page.                         *)

NextReopen ==
    \/ \E path \in Paths : open_comic(path)
    \/ on_canvas_configure(<<ProperSize, ProperSize>>)
    \/ idle_callback
    \/ \E w \in Workers : WorkerGet(w)
    \/ \E w \in Workers : WorkerCheck(w)
    \/ \E w \in Workers : WorkerSource(w)
    \/ \E w \in Workers : WorkerFetch(w)
    \/ \E w \in Workers : WorkerHandoff(w)

SpecReopen == Init /\ [][NextReopen]_vars /\ Fairness

\* _open_comic has just loaded a document into a viewer whose canvas was
\* already marked properly sized.
OpenedWhileSized ==
    last_op = "open_comic" /\ source # 0 /\ canvas_properly_sized

\* The first page of the open document is on display: its image, or its
\* info overlay when it is a text page.
FirstPageShown ==
    /\ source # 0 /\ current_index = 0
    /\ IF is_text_name(PageName(0))
       THEN info_overlay
       ELSE /\ current_pil # None
            /\ current_pil.doc = source
            /\ current_pil.name = PageName(0)

\* C34: after a document is opened in a viewer whose canvas is already
\* properly sized, its first page is eventually displayed without a page
\* turn, unless a worker's fetch, decode or hand-off fails.
C34_ReopenEventuallyShown ==
    OpenedWhileSized ~> (FirstPageShown \/ WorkFailed)

----------------------------------------------------------------------------
(* Scrolling: _scroll_down and _scroll_up move a displayed image that is    *)
(* taller than the canvas; _open_comic starts the next document unscrolled. *)

\* _scroll_step(): max(50, self.canvas.winfo_height() // 5)
ScrollStep(cv) == Max(50, cv[2] \div 5)

\* The body of _scroll_by(delta), _reposition_current_image included.
ScrollByCall(delta) ==
    /\ scroll_offset' =
         IF current_pil = None \/ MaxOffset(current_pil, canvas) = 0
         THEN scroll_offset
         ELSE Min(MaxOffset(current_pil, canvas), Max(0, scroll_offset + delta))
    /\ Submit(<<>>)
    /\ UNCHANGED <<source, current_index, render_generation, image_cache,
                   current_pil, info_overlay, canvas_properly_sized,
                   first_proper_render_completed, canvas, workerVars, lruVars,
                   loadVars, debVars, live, peak_live, quitVars, poolVars>>

scroll_down ==
    /\ UiEvent("scroll_down")
    /\ ScrollByCall(ScrollStep(canvas))

scroll_up ==
    /\ UiEvent("scroll_up")
    /\ ScrollByCall(-ScrollStep(canvas))

\* The viewer with the first page of document 1 decoded for a 100x100 canvas,
\* cached and on display, and the window since squeezed to 1x1: the state
\* construction, <Configure> 100x100, a worker's decode, its hand-off and
\* <Configure> 1x1 lead to.
viewerSqueezed ==
    /\ source = 1
    /\ current_index = 0
    /\ render_generation = 0
    /\ current_pil = ResizedImage(1, DocPages(1)[1], ProperSize, ProperSize)
    /\ image_cache = LRU_setitem(LRUCache(CacheMaxSize),
                                 <<0, ProperSize, ProperSize>>, current_pil)
    /\ scroll_offset = 0
    /\ info_overlay = FALSE
    /\ canvas_properly_sized = TRUE
    /\ first_proper_render_completed = TRUE
    /\ canvas = <<1, 1>>
    /\ queue = <<>>
    /\ num_workers \in WorkerCounts
    /\ pc = [w \in 1..num_workers |-> "get"]
    /\ witem = [w \in 1..num_workers |-> NoItem]
    /\ wsrc = [w \in 1..num_workers |-> 0]
    /\ wimg = [w \in 1..num_workers |-> None]
    /\ werr = [w \in 1..num_workers |-> "none"]
    /\ idle = <<>>
    /\ pending = EmptyBag
    /\ events = 0
    /\ last_ui = [update |-> "none", dropped |-> 0]
    /\ last_op = "on_canvas_configure"
    /\ live = Loaded(EmptyBag, source)
    /\ peak_live = BagCardinality(live)
    /\ quitting = FALSE
    /\ dialog_active = FALSE
    /\ pending_quit = FALSE
    /\ destroyed = 0
    /\ stopped = FALSE
    /\ threads = [i \in 1..num_workers |-> i]
    /\ stop_pc = "idle"
    /\ join_raised = {}

InitScroll == viewerSqueezed /\ lruIdle /\ debIdle /\ loadIdle

NextScroll ==
    \/ scroll_down
    \/ scroll_up
    \/ next_page
    \/ \E path \in Paths : open_comic(path)
    \/ \E sz \in CanvasSizes : on_canvas_configure(sz)
    \/ idle_callback
    \/ \E w \in Workers : WorkerGet(w)
    \/ \E w \in Workers : WorkerCheck(w)
    \/ \E w \in Workers : WorkerSource(w)
    \/ \E w \in Workers : WorkerFetch(w)
    \/ \E w \in Workers : WorkerHandoff(w)

SpecScroll == InitScroll /\ [][NextScroll]_vars

\* The squeezed viewer is a state the viewer reaches from construction, the
\* count of events aside.
SqueezedReached ==
    /\ source = 1 /\ current_index = 0 /\ render_generation = 0
    /\ current_pil = ResizedImage(1, DocPages(1)[1], ProperSize, ProperSize)
    /\ image_cache = LRU_setitem(LRUCache(CacheMaxSize),
                                 <<0, ProperSize, ProperSize>>, current_pil)
    /\ scroll_offset = 0 /\ ~info_overlay /\ canvas_properly_sized
    /\ first_proper_render_completed /\ canvas = <<1, 1>>
    /\ queue = <<>> /\ idle = <<>> /\ pending = EmptyBag
    /\ \A w \in Workers : pc[w] = "get" /\ werr[w] = "none"
    /\ last_op = "on_canvas_configure"

\* A step of _open_comic, whether load_comic returned or raised.
OpenComicStep ==
    /\ events' = events + 1
    /\ last_op' \in {"open_comic", "open_comic_failed"}

\* C40: _open_comic, whether the load succeeds or fails, leaves the render
\* cache empty, the current index at 0 and the scroll offset at 0, and changes
\* neither the render generation nor the contents of the work queue.
C40_OpenComicResetsView ==
    [][ OpenComicStep =>
          /\ image_cache'.cache = <<>>
          /\ current_index' = 0
          /\ scroll_offset' = 0
          /\ render_generation' = render_generation
          /\ queue' = queue ]_vars

\* _open_comic has run on a viewer that had turned to the second page, with
\* the generation raised and requests still queued: the cache is empty, the
\* index and the offset are 0, the generation and the queue are as they were.
C40_Witness ==
    /\ last_op \in {"open_comic", "open_comic_failed"}
    /\ image_cache.cache = <<>>
    /\ current_index = 0 /\ scroll_offset = 0
    /\ render_generation > 0
    /\ queue # <<>>

====
